---------------------------- MODULE Spec2Model ----------------------------
(***************************************************************************)
(* State-machine model of the QUIC transport core of AgentLinkCoro:        *)
(* packet-number manager, sent-packet history and handler (loss detection),*)
(* send / receive streams, the incoming-stream map and the session.        *)
(*                                                                         *)
(* Times are microseconds (GetCurrentUS).  ~0ull is written InvalidPn.     *)
(* An _ASSERT that fails aborts the process in a debug build and is a      *)
(* no-op in a build with NDEBUG; the build is chosen in Init.              *)
(***************************************************************************)
EXTENDS Integers, Sequences, FiniteSets, TLC

(***************************************************************************)
(* Bounds of the model.                                                    *)
(***************************************************************************)
MaxPn == 2          \* packet numbers an inbound ACK frame may name
MaxTicks == 1       \* clock advances
MaxWrites == 2      \* application write() calls on the send stream
MaxAcks == 1        \* inbound packets carrying an ACK frame
MaxPeerFrames == 2  \* inbound packets carrying any other frame
MaxReads == 1       \* application read() calls on the receive stream
MaxAccepts == 1     \* application accept_stream() calls
MaxNotifies == 2    \* events the other fibers hand to the session semaphore
MaxWaits == 4       \* returns of the session fiber from SessionSemaphore::wait
MaxCredits == 45    \* inbound packets carrying a flow-control limit

(***************************************************************************)
(* Program constants.                                                      *)
(***************************************************************************)
InvalidPn == 2147483647
InitialPn == 1
packetThreshold == 3
MaxTrackedPackets == 4194304
MaxPacketSize == 1252
CidLen == 4
MaxAckDelay == 25000
PacketsBeforeAck == 2
MaxNumberAckRanges == 64
MinRetransLen == 128
BufferLimit == 1452
InitialSendWin == 524288
InitialRecvWin == 524288
MaxRecvWin == 6291456
SessionStreamId == 0
\* the second bidirectional stream the client opens
OtherStreamIds == {4}

StartTime == 1000000
TickStep == 27000
WriteSizes == {2, 1300}

Min(a, b) == IF a < b THEN a ELSE b
Max(a, b) == IF a > b THEN a ELSE b
Min2(S) == CHOOSE x \in S : \A y \in S : x <= y

VARIABLES
    pnm,      \* PacketNumberManager: m_next
    sph,      \* SentPacketHandler fields
    hist,     \* SentPacketHistory: list, map, highest_sent
    pkts,     \* QuicPacket objects, by packet number
    rtt,      \* RTTStats
    rpt,      \* ReceivedPacketTracker
    snd,      \* QuicSndStream of stream 0
    rcv,      \* QuicRcvStream of stream 0
    sess,     \* QuicSession
    smap,     \* QuicIncomingBidiStreamsMap
    app,      \* application fibers: reader, writer, acceptor
    now,      \* the clock
    build,    \* "debug" or "ndebug"
    aborted,  \* the process died on a failed assert
    srv,      \* QuicServer: accept queue and accept semaphore
    obs       \* observation log of calls and results

vars == <<pnm, sph, hist, pkts, rtt, rpt, snd, rcv, sess, smap, app, now, build,
          aborted, srv, obs>>

(***************************************************************************)
(* The world threaded through the operators that model methods.            *)
(***************************************************************************)
NoFrame == [type |-> "NONE"]

\* .ret carries the value a method returns, .pay the payload being composed
World ==
    [ret |-> [frame |-> NoFrame, more |-> FALSE, acked |-> <<>>, err |-> "NONE"],
     pay |-> [ack |-> NoFrame, frames |-> <<>>, tags |-> <<>>, length |-> 0],
     pnm |-> pnm, sph |-> sph, hist |-> hist, pkts |-> pkts, rtt |-> rtt,
     rpt |-> rpt, snd |-> snd, rcv |-> rcv, sess |-> sess, smap |-> smap,
     app |-> app, now |-> now, build |-> build, aborted |-> aborted,
     srv |-> srv, obs |-> obs]

Commit(w) ==
    /\ pnm' = w.pnm
    /\ sph' = w.sph
    /\ hist' = w.hist
    /\ pkts' = w.pkts
    /\ rtt' = w.rtt
    /\ rpt' = w.rpt
    /\ snd' = w.snd
    /\ rcv' = w.rcv
    /\ sess' = w.sess
    /\ smap' = w.smap
    /\ app' = w.app
    /\ now' = w.now
    /\ build' = w.build
    /\ aborted' = w.aborted
    /\ srv' = w.srv
    /\ obs' = w.obs

\* _ASSERT(0): abort in a debug build, nothing with NDEBUG
AssertFail(w) == IF w.build = "debug" THEN [w EXCEPT !.aborted = TRUE] ELSE w

\* run F on w unless the process already died
Then(w, F(_)) == IF w.aborted THEN w ELSE F(w)


(***************************************************************************)
(* Frames.  A STREAM frame is its offset, data length, FIN flag and        *)
(* whether set_data gave it a length field; its stream is SessionStreamId. *)
(***************************************************************************)
\* nodata: set_data was given a null buffer
StreamFrame(off, n, fin, haslen) ==
    [type |-> "STREAM", offset |-> off, len |-> n, fin |-> fin, has_len |-> haslen,
     nodata |-> FALSE]

ControlFrame(t, v) == [type |-> t, value |-> v]

var_size(n) ==
    IF n < 64 THEN 1 ELSE IF n < 16384 THEN 2 ELSE IF n < 1073741824 THEN 4 ELSE 8

\* the gap and length entries of QuicAckFrame::size from range i on
RECURSIVE AckRangesSize(_, _)
AckRangesSize(r, i) ==
    IF i > Len(r) THEN 0
    ELSE var_size(r[i - 1].smallest - r[i].largest - 2)
         + var_size(r[i].largest - r[i].smallest) + AckRangesSize(r, i + 1)

\* QuicStreamFrame::size and the sizes of the control frames the session queues
FrameSize(f) ==
    IF f.type = "STREAM"
    THEN 1 + var_size(SessionStreamId) + var_size(f.offset)
           + (IF f.has_len THEN var_size(f.len) + f.len ELSE 0)
    ELSE IF f.type = "ACK"
    THEN 1 + var_size(f.ranges[1].largest) + var_size(f.delay)
           + var_size(Len(f.ranges) - 1)
           + var_size(f.ranges[1].largest - f.ranges[1].smallest)
           + AckRangesSize(f.ranges, 2)
    ELSE IF f.type \in {"STREAM_DATA_BLOCKED", "RESET_STREAM"}
    THEN 1 + var_size(SessionStreamId) + var_size(f.value)
    ELSE 1 + var_size(f.value)

RECURSIVE FramesSize(_)
FramesSize(fs) == IF fs = <<>> THEN 0 ELSE FrameSize(Head(fs)) + FramesSize(Tail(fs))

\* QuicStreamFrame::maxDataLen
maxDataLen(f, max_size) ==
    LET header_len == 1 + var_size(SessionStreamId) + var_size(f.offset)
                        + (IF f.has_len THEN 1 ELSE 0)
        max_data_len == max_size - header_len
    IN IF header_len > max_size THEN 0
       ELSE IF f.has_len /\ var_size(max_data_len) # 1 THEN max_data_len - 1
       ELSE max_data_len

\* isFrameAckEliciting
isFrameAckEliciting(f) == f.type \notin {"ACK", "CONNECTION_CLOSE"}

RECURSIVE Run(_, _, _)

(***************************************************************************)
(* Session primitives used by the stream callbacks.                        *)
(***************************************************************************)
\* SessionSemaphore::notify
SemNotify(w, ev) ==
    LET w1 == [w EXCEPT !.sess.events = Append(@, ev)]
    IN IF w1.sess.waiters # <<>>
       THEN [w1 EXCEPT !.sess.waiters = Tail(@), !.sess.fiber = "ready"]
       ELSE w1

\* QuicSession::signalWrite
signalWrite(w) == SemNotify(w, "WRITE")

\* QuicSession::addActiveStream
addActiveStream(w, id) ==
    IF id \in w.sess.active_streams THEN w
    ELSE [w EXCEPT !.sess.stream_queue = Append(@, id),
                   !.sess.active_streams = @ \cup {id}]

\* QuicSession::onHasStreamData
onHasStreamData(w, id) == Run("signalWrite", Run("addActiveStream", w, <<id>>), <<>>)

\* the frames that report a sender held back by a limit of the peer
BlockedTypes == {"STREAM_DATA_BLOCKED", "DATA_BLOCKED", "STREAMS_BLOCKED"}

\* QuicSession::queueControlFrame; the BLOCKED frames queued are logged
queueControlFrame(w, f) ==
    LET w1 == [w EXCEPT !.sess.control_frames = Append(@, f),
                        !.obs.ctrl_queued = Append(@, f)]
        w2 == IF f.type \in BlockedTypes
              THEN [w1 EXCEPT !.obs.blocked_frames = Append(@, f)] ELSE w1
    IN Run("signalWrite", w2, <<>>)

\* QuicSession::RetransmissionQueue::addAppData
addAppData(w, f) == [w EXCEPT !.sess.retrans_queue = Append(@, f)]

\* QuicOutgoingBidiStreamsMap::deleteStream, through QuicStreamManager::deleteStream
\* and QuicSession::onStreamCompleted (stream 0 is client-initiated, number 1)
onStreamCompleted(w, id) == [w EXCEPT !.smap.out_streams = @ \ {(id \div 4) + 1}]

(***************************************************************************)
(* QuicSndStream.                                                          *)
(***************************************************************************)
\* FiberSemaphore::notify on m_wait_write_sem
sndSignalWrite(w) ==
    IF w.app.writer.pc = "waiting" /\ ~w.app.writer.woken
    THEN [w EXCEPT !.app.writer.woken = TRUE]
    ELSE [w EXCEPT !.snd.write_sem = @ + 1]

isNewlyCompleted(w) ==
    (w.snd.fin_sent \/ w.snd.canceled_write)
    /\ w.snd.num_outstanding_frames = 0
    /\ w.snd.retransmission_queue = <<>>
    /\ ~w.snd.complete

\* QuicSndStream::frameAcked
frameAcked(w, f) ==
    IF w.snd.canceled_write THEN w
    ELSE LET w1 == [w EXCEPT !.snd.num_outstanding_frames = @ - 1,
                             !.obs.min_outstanding =
                                 Min(@, w.snd.num_outstanding_frames - 1)]
             w2 == IF w1.snd.num_outstanding_frames < 0 THEN AssertFail(w1) ELSE w1
             done(x) == IF isNewlyCompleted(x)
                        THEN Run("onStreamCompleted", [x EXCEPT !.snd.complete = TRUE], <<x.snd.id>>)
                        ELSE x
         IN Then(w2, done)

\* QuicSndStream::queueRetransmission
queueRetransmission(w, f) ==
    IF w.snd.canceled_write THEN w
    ELSE LET w1 == [w EXCEPT !.snd.retransmission_queue = Append(@, f),
                             !.snd.num_outstanding_frames = @ - 1,
                             !.obs.min_outstanding =
                                 Min(@, w.snd.num_outstanding_frames - 1)]
             w2 == IF w1.snd.num_outstanding_frames < 0 THEN AssertFail(w1) ELSE w1
             more(x) == Run("onHasStreamData", x, <<x.snd.id>>)
         IN Then(w2, more)

\* QuicFrame::onAcked: STREAM frames popped from the stream carry frameAcked
FrameOnAcked(w, f) == IF f.type = "STREAM" THEN Run("frameAcked", w, <<f>>) ELSE w

\* QuicFrame::onLost: STREAM frames carry queueRetransmission (set in popStreamFrame),
\* the other frames get RetransmissionQueue::addAppData in QuicPacket::init
FrameOnLost(w, f) == IF f.type = "STREAM" THEN Run("queueRetransmission", w, <<f>>) ELSE Run("addAppData", w, <<f>>)

RECURSIVE FramesOnAcked(_, _)
FramesOnAcked(w, fs) ==
    IF fs = <<>> \/ w.aborted THEN w
    ELSE FramesOnAcked(Run("FrameOnAcked", w, <<Head(fs)>>), Tail(fs))

RECURSIVE FramesOnLost(_, _)
FramesOnLost(w, fs) ==
    IF fs = <<>> \/ w.aborted THEN w
    ELSE FramesOnLost(Run("FrameOnLost", w, <<Head(fs)>>), Tail(fs))

(***************************************************************************)
(* Stream flow controller (send side).                                     *)
(***************************************************************************)
\* StreamFlowController::sendWinSize
sendWinSize(w) == Max(w.snd.fc_send_win - w.snd.fc_bytes_sent, 0)

\* StreamFlowController::addBytesSent, which also credits the connection
addBytesSent(w, n) ==
    [w EXCEPT !.snd.fc_bytes_sent = @ + n, !.sess.conn_bytes_sent = @ + n]

\* StreamFlowController::isNewlyBlocked: the offset to report, 0 for none
isNewlyBlockedOffset(w) ==
    IF w.snd.fc_send_win = w.snd.fc_bytes_sent
       /\ w.snd.fc_send_win # w.snd.fc_last_blocked_at
    THEN w.snd.fc_send_win ELSE 0

isNewlyBlockedMark(w) ==
    IF isNewlyBlockedOffset(w) # 0
    THEN [w EXCEPT !.snd.fc_last_blocked_at = w.snd.fc_send_win] ELSE w

(***************************************************************************)
(* QuicSndStream: producing frames.  Each pop operator returns the world   *)
(* with the popped frame in .ret.frame and has_more_data in .ret.more.     *)
(***************************************************************************)
Ret(w, f, more) == [w EXCEPT !.ret.frame = f, !.ret.more = more]

NextFrameLen(w) == IF w.snd.next_frame = NoFrame THEN 0 ELSE w.snd.next_frame.len

\* QuicSndStream::canBufferStreamFrame
canBufferStreamFrame(w) == NextFrameLen(w) + w.snd.data_for_writing <= BufferLimit

\* QuicSndStream::get_data_for_writing; the frame under construction is w.ret.frame
get_data_for_writing(w, max_bytes) ==
    IF w.snd.data_for_writing <= max_bytes
    THEN Run("sndSignalWrite", [w EXCEPT !.ret.frame.len = w.snd.data_for_writing,
                                  !.ret.frame.has_len = TRUE,
                                  !.ret.frame.nodata = (w.snd.data_for_writing = 0),
                                  !.snd.data_for_writing = 0], <<>>)
    ELSE LET w1 == [w EXCEPT !.ret.frame.len = max_bytes,
                             !.ret.frame.has_len = TRUE,
                             !.snd.data_for_writing = @ - max_bytes]
         IN IF canBufferStreamFrame(w1) THEN Run("sndSignalWrite", w1, <<>>) ELSE w1

\* QuicSndStream::popNewStreamFrameWithoutBuffer
popNewStreamFrameWithoutBuffer(w, max_bytes, send_win) ==
    LET max_data_len == maxDataLen(w.ret.frame, max_bytes)
    IN IF max_data_len = 0 THEN [w EXCEPT !.ret.more = FALSE]
       ELSE LET w1 == Run("get_data_for_writing", w, <<Min(max_data_len, send_win)>>)
            IN [w1 EXCEPT !.ret.more = w1.snd.data_for_writing # 0
                                       \/ w1.snd.next_frame # NoFrame
                                       \/ w1.snd.fin_sent]

popNewStreamFrame_offset(w) == w.snd.write_offset

\* QuicSndStream::popNewStreamFrame
popNewStreamFrame(w, max_bytes, send_win) ==
    IF w.snd.next_frame # NoFrame
    THEN LET next_frame == w.snd.next_frame
             max_data_len == Min(send_win, maxDataLen(next_frame, max_bytes))
         IN IF next_frame.len > max_data_len
            THEN Ret([w EXCEPT !.snd.next_frame =
                          [next_frame EXCEPT !.offset = w.snd.write_offset + max_data_len,
                                             !.len = @ - max_data_len]],
                     [next_frame EXCEPT !.len = max_data_len], TRUE)
            ELSE Ret(Run("sndSignalWrite", [w EXCEPT !.snd.next_frame = NoFrame], <<>>),
                     next_frame, w.snd.data_for_writing # 0)
    ELSE LET w1 == Run("popNewStreamFrameWithoutBuffer", Ret(w, StreamFrame(popNewStreamFrame_offset(w), 0, FALSE, FALSE), FALSE), <<max_bytes, send_win>>)
         IN IF w1.ret.frame.nodata /\ ~w1.ret.frame.fin
            THEN [w1 EXCEPT !.ret.frame = NoFrame] ELSE w1

\* QuicStreamFrame::maybeSplitOffFrame on the head of the retransmission queue,
\* inside QuicSndStream::maybeGetRetransmission
maybeGetRetransmission(w, max_bytes) ==
    LET frame == Head(w.snd.retransmission_queue)
    IN IF frame.len <= max_bytes
       THEN Ret([w EXCEPT !.snd.retransmission_queue = Tail(@)], frame,
                Len(w.snd.retransmission_queue) > 1)
       ELSE Ret([w EXCEPT !.snd.retransmission_queue[1] =
                     [frame EXCEPT !.offset = @ + max_bytes, !.len = @ - max_bytes]],
                [frame EXCEPT !.len = max_bytes, !.fin = FALSE, !.has_len = TRUE], TRUE)

\* a blocked stream that reports its offset at every attempt
streamBlockedAlways(w) ==
    Ret(Run("queueControlFrame", Run("isNewlyBlockedMark", w, <<>>),
            <<ControlFrame("STREAM_DATA_BLOCKED", w.snd.fc_send_win)>>),
        NoFrame, FALSE)

\* the send_win == 0 branch of popNewOrRetransmissitedStreamFrame
streamBlocked(w) ==
    IF isNewlyBlockedOffset(w) # 0
    THEN Ret(Run("queueControlFrame", Run("isNewlyBlockedMark", w, <<>>),
                 <<ControlFrame("STREAM_DATA_BLOCKED", isNewlyBlockedOffset(w))>>),
             NoFrame, FALSE)
    ELSE Ret(w, NoFrame, TRUE)

\* a write offset that moves backwards
rewindWriteOffset(offset, n) == offset - n

\* m_write_offset += frame->data()->readAvailable()
advanceWriteOffset(offset, n) == offset + n

\* QuicSndStream::popNewOrRetransmissitedStreamFrame
popNewOrRetransmissitedStreamFrame(w, max_bytes) ==
    IF w.snd.canceled_write \/ w.snd.shutdown THEN Ret(w, NoFrame, FALSE)
    ELSE IF w.snd.retransmission_queue # <<>>
    THEN LET w1 == Run("maybeGetRetransmission", w, <<max_bytes>>)
         IN [w1 EXCEPT !.ret.more = TRUE,
                       !.obs.pops = Append(@, [offset |-> w1.ret.frame.offset,
                                               len |-> w1.ret.frame.len,
                                               fin |-> w1.ret.frame.fin,
                                               retrans |-> TRUE])]
    ELSE IF w.snd.data_for_writing = 0 /\ w.snd.next_frame = NoFrame
    THEN IF w.snd.finished_writing /\ ~w.snd.fin_sent
         THEN Ret([w EXCEPT !.snd.fin_sent = TRUE,
                            !.obs.pops = Append(@, [offset |-> w.snd.write_offset,
                                                    len |-> 0, fin |-> TRUE,
                                                    retrans |-> FALSE])],
                  StreamFrame(w.snd.write_offset, 0, TRUE, FALSE), FALSE)
         ELSE Ret(w, NoFrame, FALSE)
    ELSE IF sendWinSize(w) = 0 THEN Run("streamBlocked", w, <<>>)
    ELSE LET w1 == Run("popNewStreamFrame", w, <<max_bytes, sendWinSize(w)>>)
             frame == w1.ret.frame
             w2 == IF frame # NoFrame /\ ~frame.nodata /\ frame.len > 0
                   THEN Run("addBytesSent",
                            [w1 EXCEPT !.snd.write_offset =
                                           advanceWriteOffset(@, frame.len)],
                            <<frame.len>>)
                   ELSE w1
             w3 == IF w2.snd.finished_writing /\ w2.snd.data_for_writing = 0
                      /\ w2.snd.next_frame = NoFrame /\ ~w2.snd.fin_sent
                   THEN [w2 EXCEPT !.ret.frame.fin = TRUE, !.snd.fin_sent = TRUE]
                   ELSE w2
         IN IF frame = NoFrame THEN w3
            ELSE [w3 EXCEPT !.obs.pops = Append(@, [offset |-> frame.offset,
                                                    len |-> frame.len,
                                                    fin |-> w3.ret.frame.fin,
                                                    retrans |-> FALSE])]

\* QuicSndStream::popStreamFrame
popStreamFrame(w, max_bytes) ==
    LET w1 == Run("popNewOrRetransmissitedStreamFrame", w, <<max_bytes>>)
    IN IF w1.ret.frame = NoFrame THEN w1
       ELSE LET w2 == [w1 EXCEPT !.snd.num_outstanding_frames = @ + 1]
            IN IF w2.ret.frame.len > 1400 THEN AssertFail(w2) ELSE w2

\* QuicSndStream::close
sndClose(w) ==
    IF w.snd.canceled_write THEN w
    ELSE Run("onHasStreamData", [w EXCEPT !.snd.finished_writing = TRUE], <<w.snd.id>>)

\* a write that gives up where it would have to wait for the send loop
writeWithoutWaiting(w) ==
    IF canBufferStreamFrame(w) /\ w.snd.data_for_writing # 0
    THEN Run("onHasStreamData",
             [w EXCEPT !.snd.next_frame =
                           IF @ = NoFrame
                           THEN StreamFrame(w.snd.write_offset,
                                            w.snd.data_for_writing, FALSE, TRUE)
                           ELSE [@ EXCEPT !.len = @ + w.snd.data_for_writing],
                       !.snd.data_for_writing = 0,
                       !.app.writer = [pc |-> "idle", woken |-> FALSE, size |-> 0],
                       !.obs.write_result = [ok |-> TRUE, n |-> w.app.writer.size,
                                             err |-> "OK"]],
             <<w.snd.id>>)
    ELSE [w EXCEPT !.snd.data_for_writing = 0,
                   !.app.writer = [pc |-> "idle", woken |-> FALSE, size |-> 0],
                   !.obs.write_result = [ok |-> TRUE, n |-> 0, err |-> "OK"]]

\* QuicSndStream::write up to the first waitWrite() or the return; n bytes offered.
\* One pass of the while(1) loop, entered with m_data_for_writing holding the rest.
writeLoop(w) ==
    IF canBufferStreamFrame(w) /\ w.snd.data_for_writing # 0
    THEN LET w1 == [w EXCEPT
                     !.snd.next_frame =
                        IF @ = NoFrame
                        THEN StreamFrame(w.snd.write_offset, w.snd.data_for_writing,
                                         FALSE, TRUE)
                        ELSE [@ EXCEPT !.len = @ + w.snd.data_for_writing],
                     !.snd.data_for_writing = 0,
                     !.app.writer = [pc |-> "idle", woken |-> FALSE, size |-> 0],
                     !.obs.write_result = [ok |-> TRUE, n |-> w.app.writer.size,
                                           err |-> "OK"]]
         IN Run("onHasStreamData", w1, <<w1.snd.id>>)
    ELSE IF w.snd.data_for_writing = 0 \/ w.snd.canceled_write \/ w.snd.shutdown
    THEN LET written == w.app.writer.size - w.snd.data_for_writing
             err == IF written = w.app.writer.size THEN "OK"
                    ELSE IF w.snd.shutdown THEN "SHUTDOWN"
                    ELSE IF w.snd.canceled_write THEN "CANCEL_WRITE" ELSE "OK"
         IN [w EXCEPT !.app.writer = [pc |-> "idle", woken |-> FALSE, size |-> 0],
                      !.obs.write_result = [ok |-> TRUE, n |-> written, err |-> err]]
    ELSE LET w1 == Run("onHasStreamData", w, <<w.snd.id>>)
         IN IF w1.snd.write_sem > 0
            THEN [w1 EXCEPT !.snd.write_sem = @ - 1,
                            !.app.writer.pc = "waiting", !.app.writer.woken = TRUE]
            ELSE [w1 EXCEPT !.app.writer.pc = "waiting", !.app.writer.woken = FALSE]

\* QuicSndStream::write, from the call to the first suspension or the return
sndWrite(w, n) ==
    LET fail(e) == [w EXCEPT !.obs.write_result = [ok |-> FALSE, n |-> 0, err |-> e]]
    IN IF w.snd.finished_writing THEN fail("WRITE_ON_CLOSED_STREAM")
       ELSE IF w.snd.canceled_write THEN fail("CANCEL_WRITE")
       ELSE IF w.snd.shutdown THEN fail("SHUTDOWN")
       ELSE IF n = 0 THEN fail("WRITE_BUFFER_EMPTY")
       ELSE LET w1 == IF w.snd.data_for_writing # 0 THEN AssertFail(w) ELSE w
                go(x) == Run("writeLoop", [x EXCEPT !.snd.data_for_writing = n,
                                             !.app.writer.size = n,
                                             !.obs.write_asked = n], <<>>)
            IN Then(w1, go)

(***************************************************************************)
(* RTTStats.                                                               *)
(***************************************************************************)
Granularity == 1000

\* RTTStats::PTO
PTO(r) == r.smoothed + Max(4 * r.var, Granularity) + MaxAckDelay

\* RTTStats::updateRTT
updateRTT(r, real_rtt, ack_delay) ==
    LET sample == IF real_rtt - ack_delay >= r.min /\ r.min > 0
                  THEN real_rtt - ack_delay ELSE real_rtt
        dev == IF r.smoothed > sample THEN r.smoothed - sample ELSE sample - r.smoothed
    IN IF r.smoothed = 0
       THEN [latest |-> real_rtt, min |-> real_rtt, smoothed |-> sample,
             var |-> sample \div 2]
       ELSE [latest |-> real_rtt, min |-> Min(r.min, real_rtt),
             smoothed |-> (7 * r.smoothed + sample) \div 8,
             var |-> (3 * r.var + dev) \div 4]

(***************************************************************************)
(* SentPacketHistory: m_packet_list is a sequence of nodes [id, pn], the   *)
(* node holds a pointer to the packet object pkts[pn]; m_packet_map maps a *)
(* packet number to the id of a node (a list iterator).                    *)
(***************************************************************************)
\* the placeholder packet made for a skipped packet number
SkipPacket(pn, t) ==
    [pn |-> pn, send_time |-> t, len |-> 0, frames |-> <<>>, lost |-> FALSE,
     skip |-> TRUE, inflight |-> FALSE, largest_acked |-> InvalidPn]

\* m_packet_list.push_back(p); m_packet_map[pn] = --end()
histPush(h, pn) ==
    [h EXCEPT !.list = Append(@, [id |-> h.next_id, pn |-> pn]),
              !.map = [q \in DOMAIN @ \cup {pn} |-> IF q = pn THEN h.next_id ELSE @[q]],
              !.next_id = @ + 1]

RECURSIVE histSkip(_, _, _, _)
histSkip(w, pn, upto, t) ==
    IF pn >= upto THEN w
    ELSE histSkip([w EXCEPT !.hist = histPush(@, pn),
                            !.pkts = [q \in DOMAIN @ \cup {pn} |->
                                        IF q = pn THEN SkipPacket(pn, t) ELSE @[q]]],
                  pn + 1, upto, t)

\* SentPacketHistory::sentPacket
histSentPacket(w, pn, is_ack_eliciting, t) ==
    LET w0 == IF pn < w.hist.highest_sent THEN AssertFail(w) ELSE w
        go(x) ==
            LET w1 == Run("histSkip", x, <<x.hist.highest_sent + 1, pn, t>>)
                w2 == [w1 EXCEPT !.hist.highest_sent = pn]
            IN IF is_ack_eliciting THEN [w2 EXCEPT !.hist = histPush(@, pn)] ELSE w2
    IN Then(w0, go)

\* the packets of the list that are neither declared lost nor skipped
Outstanding(w) ==
    SelectSeq(w.hist.list, LAMBDA n : ~w.pkts[n.pn].lost /\ ~w.pkts[n.pn].skip)

\* SentPacketHistory::firstOutstanding: the packet number, InvalidPn for nullptr
firstOutstanding(w) ==
    IF Outstanding(w) = <<>> THEN InvalidPn ELSE Head(Outstanding(w)).pn

\* SentPacketHistory::hasOutstandingPackets
hasOutstandingPackets(w) == firstOutstanding(w) # InvalidPn

\* SentPacketHistory::len
histLen(w) == Cardinality(DOMAIN w.hist.map)

\* SentPacketHistory::remove; .ret.more is the result
histRemove(w, pn) ==
    IF pn \notin DOMAIN w.hist.map THEN [w EXCEPT !.ret.more = FALSE]
    ELSE [w EXCEPT !.hist.list = SelectSeq(@, LAMBDA n : n.id # w.hist.map[pn]),
                   !.hist.map = [q \in DOMAIN @ \ {pn} |-> @[q]],
                   !.ret.more = TRUE]

\* SentPacketHistory::deleteOldPackets
RECURSIVE deleteOldFrom(_, _, _)
deleteOldFrom(w, i, t) ==
    IF i > Len(w.hist.list) THEN w
    ELSE LET n == w.hist.list[i]
             packet == w.pkts[n.pn]
         IN IF t - 3 * PTO(w.rtt) < packet.send_time THEN w
            ELSE IF ~packet.skip /\ ~packet.lost THEN deleteOldFrom(w, i + 1, t)
            ELSE deleteOldFrom(
                     [w EXCEPT !.hist.map = [q \in DOMAIN @ \ {n.pn} |-> @[q]],
                               !.hist.list = SelectSeq(@, LAMBDA m : m.id # n.id)],
                     i, t)

deleteOldPackets(w, t) == Run("deleteOldFrom", w, <<1, t>>)

(***************************************************************************)
(* SentPacketHandler.                                                      *)
(***************************************************************************)
\* SentPacketHandler::removeFromBytesInflight
removeFromBytesInflight(w, pn) ==
    IF ~w.pkts[pn].inflight THEN w
    ELSE LET w0 == IF w.pkts[pn].len > w.sph.bytes_inflight THEN AssertFail(w) ELSE w
             go(x) == [x EXCEPT !.sph.bytes_inflight = @ - x.pkts[pn].len,
                                !.pkts[pn].inflight = FALSE]
         IN Then(w0, go)

\* SentPacketHandler::sentPacketImpl; the packet object is already pkts[pn]
sentPacketImpl(w, pn) ==
    LET packet == w.pkts[pn]
        is_ack_eliciting == Len(packet.frames) > 0
        w1 == [w EXCEPT !.sph.largest_sent = pn]
        w2 == IF is_ack_eliciting
              THEN [w1 EXCEPT !.sph.last_ack_eliciting_packet_time = packet.send_time,
                              !.pkts[pn].inflight = TRUE,
                              !.sph.bytes_inflight = @ + packet.len,
                              !.sph.num_probes_to_send = IF @ > 0 THEN @ - 1 ELSE @]
              ELSE w1
    IN Run("histSentPacket", w2, <<pn, is_ack_eliciting, packet.send_time>>)

\* SentPacketHandler::setLossDetectionTimer
setLossDetectionTimer(w) ==
    IF w.sph.loss_time # 0 THEN [w EXCEPT !.sph.alarm = w.sph.loss_time]
    ELSE IF ~hasOutstandingPackets(w) THEN [w EXCEPT !.sph.alarm = 0]
    ELSE [w EXCEPT !.sph.alarm =
             IF w.sph.last_ack_eliciting_packet_time # 0
             THEN w.sph.last_ack_eliciting_packet_time
                  + PTO(w.rtt) * (2 ^ w.sph.PTO_count)
             ELSE 0]

\* SentPacketHandler::sentPacket
sentPacket(w, pn) ==
    LET is_ack_eliciting == Len(w.pkts[pn].frames) > 0
        w1 == Run("sentPacketImpl", [w EXCEPT !.sph.bytes_sent = @ + w.pkts[pn].len], <<pn>>)
        again(x) == Run("histSentPacket", [x EXCEPT !.pkts[pn].send_time = x.now], <<pn, is_ack_eliciting, x.now>>)
        w2 == Then(w1, again)
        timer(x) == IF is_ack_eliciting THEN Run("setLossDetectionTimer", x, <<>>) ELSE x
    IN Then(w2, timer)

\* SentPacketHandler::queueFramesForRetransmission
queueFramesForRetransmission(w, pn) ==
    LET w0 == IF Len(w.pkts[pn].frames) = 0 THEN AssertFail(w) ELSE w
        go(x) == LET x1 == Run("FramesOnLost", x, <<x.pkts[pn].frames>>)
                 IN IF x1.aborted THEN x1 ELSE [x1 EXCEPT !.pkts[pn].frames = <<>>]
    IN Then(w0, go)

\* packet->setLost()
setLost(w, pn) == [w EXCEPT !.pkts[pn].lost = TRUE, !.obs.lost = @ \cup {pn}]

\* SentPacketHandler::queueProbePacket; .ret.more is the result
queueProbePacket(w) ==
    LET pn == firstOutstanding(w)
    IN IF pn = InvalidPn THEN [w EXCEPT !.ret.more = FALSE]
       ELSE LET w1 == Run("queueFramesForRetransmission", w, <<pn>>)
                rest(x) == [Run("removeFromBytesInflight", Run("setLost", x, <<pn>>), <<pn>>)
                               EXCEPT !.ret.more = TRUE]
            IN Then(w1, rest)

\* ceil(max(latest, smoothed) * 9/8), at least 1
lossDelay(r) == Max((Max(r.latest, r.smoothed) * 9 + 7) \div 8, 1)

\* the Iterate callback of SentPacketHandler::detectLostPackets, from node i on
RECURSIVE detectLostFrom(_, _, _)
detectLostFrom(w, i, t) ==
    IF i > Len(w.hist.list) \/ w.aborted THEN w
    ELSE LET pn == w.hist.list[i].pn
             packet == w.pkts[pn]
         IN IF pn > w.sph.largest_acked THEN w
            ELSE IF packet.lost \/ packet.skip THEN detectLostFrom(w, i + 1, t)
            ELSE IF packet.send_time < t - lossDelay(w.rtt)
                    \/ w.sph.largest_acked >= pn + packetThreshold
            THEN LET seen == [pn |-> pn, send_time |-> packet.send_time, now |-> t,
                              largest_acked |-> w.sph.largest_acked,
                              largest_sent |-> w.sph.largest_sent,
                              max_rtt |-> Max(w.rtt.latest, w.rtt.smoothed)]
                     w0 == [w EXCEPT !.obs.loss_log = @ \cup {seen}]
                     w1 == Run("removeFromBytesInflight", Run("setLost", w0, <<pn>>), <<pn>>)
                     w2 == Then(w1, LAMBDA x : Run("queueFramesForRetransmission", x, <<pn>>))
                 IN detectLostFrom(w2, i + 1, t)
            ELSE IF w.sph.loss_time = 0
            THEN detectLostFrom(
                     [w EXCEPT !.sph.loss_time = packet.send_time + lossDelay(w.rtt)],
                     i + 1, t)
            ELSE detectLostFrom(w, i + 1, t)

\* SentPacketHandler::detectLostPackets
detectLostPackets(w, t) == Run("detectLostFrom", [w EXCEPT !.sph.loss_time = 0], <<1, t>>)

\* QuicAckFrame accessors; ranges are kept largest first
largestAcked(f) == f.ranges[1].largest
lowestAcked(f) == f.ranges[Len(f.ranges)].smallest
hasMissingRanges(f) == Len(f.ranges) > 1

\* the while loop advancing ack_range_idx (0-based, counted from the last range)
RECURSIVE advanceRange(_, _, _)
advanceRange(f, idx, pn) ==
    IF f.ranges[Len(f.ranges) - idx].largest < pn /\ idx < Len(f.ranges) - 1
    THEN advanceRange(f, idx + 1, pn) ELSE idx

\* the Iterate callback of detectAndRemoveAckedPackets: the packet numbers pushed
\* to m_acked_packets, one per visited list node
RECURSIVE collectAcked(_, _, _, _, _)
collectAcked(w, f, i, idx, acc) ==
    IF i > Len(w.hist.list) THEN acc
    ELSE LET pn == w.hist.list[i].pn
             idx2 == IF hasMissingRanges(f) THEN advanceRange(f, idx, pn) ELSE idx
             range == f.ranges[Len(f.ranges) - idx2]
         IN IF pn < lowestAcked(f) THEN collectAcked(w, f, i + 1, idx, acc)
            ELSE IF pn > largestAcked(f) THEN acc
            ELSE IF hasMissingRanges(f) /\ pn < range.smallest
            THEN collectAcked(w, f, i + 1, idx2, acc)
            ELSE IF hasMissingRanges(f) /\ pn > range.largest THEN acc
            ELSE IF w.pkts[pn].skip THEN acc
            ELSE collectAcked(w, f, i + 1, idx2, Append(acc, pn))

\* the second loop of detectAndRemoveAckedPackets; .ret.acked is the result
RECURSIVE removeAcked(_, _, _)
removeAcked(w, acked, i) ==
    IF w.aborted THEN w
    ELSE IF i > Len(acked) THEN [w EXCEPT !.ret.acked = acked]
    ELSE LET pn == acked[i]
             packet == w.pkts[pn]
             w1 == IF packet.largest_acked # InvalidPn
                   THEN [w EXCEPT !.sph.lowest_not_confirmed_acked =
                                      Max(@, packet.largest_acked + 1)]
                   ELSE w
             w2 == Run("FramesOnAcked",
                       [w1 EXCEPT !.obs.acked = @ \cup {pn},
                                  !.obs.acked_again =
                                      IF pn \in w1.obs.acked /\ packet.frames # <<>>
                                      THEN @ \cup {pn} ELSE @],
                       <<packet.frames>>)
             w3 == Then(w2, LAMBDA x : Run("histRemove", x, <<pn>>))
         IN IF w3.aborted THEN w3
            ELSE IF ~w3.ret.more THEN [w3 EXCEPT !.ret.acked = <<>>]
            ELSE removeAcked(w3, acked, i + 1)

\* SentPacketHandler::detectAndRemoveAckedPackets
detectAndRemoveAckedPackets(w, f) ==
    Run("removeAcked", w, <<Run("collectAcked", w, <<f, 1, 0, <<>>>>), 1>>)

RECURSIVE removeAllFromBytesInflight(_, _)
removeAllFromBytesInflight(w, pns) ==
    IF pns = <<>> \/ w.aborted THEN w
    ELSE removeAllFromBytesInflight(Run("removeFromBytesInflight", w, <<Head(pns)>>), Tail(pns))

\* SentPacketHandler::receivedAck after the acked packets are known
receivedAckTail(w, f, recv_time) ==
    LET acked == w.ret.acked
        last == acked[Len(acked)]
        w1 == IF last = largestAcked(f)
              THEN [w EXCEPT !.rtt = updateRTT(@, recv_time - w.pkts[last].send_time,
                                               Min(f.delay, MaxAckDelay))]
              ELSE w
        w2 == Run("detectLostPackets", w1, <<recv_time>>)
        w3 == Run("removeAllFromBytesInflight", w2, <<acked>>)
        fin(x) == Run("setLossDetectionTimer", Run("deleteOldPackets", [x EXCEPT !.sph.PTO_count = 0,
                                                 !.sph.num_probes_to_send = 0], <<recv_time>>), <<>>)
    IN Then(w3, fin)

\* what an observer of the handler sees when receivedAck returns: bytes in flight,
\* the history list with each packet's length and in-flight flag, and the hash
HistoryView(w) ==
    [bytes_inflight |-> w.sph.bytes_inflight,
     list |-> [i \in 1..Len(w.hist.list) |->
                 [id |-> w.hist.list[i].id, pn |-> w.hist.list[i].pn,
                  len |-> w.pkts[w.hist.list[i].pn].len,
                  inflight |-> w.pkts[w.hist.list[i].pn].inflight]],
     map |-> w.hist.map]

\* SentPacketHandler::receivedAck
receivedAck(w, f, recv_time) ==
    LET w0 == [w EXCEPT !.obs.last_op = "receivedAck"]
        r == IF largestAcked(f) > w0.sph.largest_sent THEN w0
             ELSE LET w1 == Run("detectAndRemoveAckedPackets",
                                [w0 EXCEPT !.sph.largest_acked = Max(@, largestAcked(f))],
                                <<f>>)
                  IN IF w1.aborted \/ w1.ret.acked = <<>> THEN w1
                     ELSE Run("receivedAckTail", w1, <<f, recv_time>>)
    IN [r EXCEPT !.obs.at_ack = HistoryView(r), !.obs.acks_handled = @ + 1]

\* SentPacketHandler::sendMode
sendMode(w, can_send) ==
    IF histLen(w) >= MaxTrackedPackets THEN "NONE"
    ELSE IF w.sph.num_probes_to_send > 0 THEN "PTO_APP_DATA"
    ELSE IF ~can_send THEN "ACK"
    ELSE "ANY"

\* a timeout that never asks for probes
timeoutWithoutProbes(w) ==
    Run("setLossDetectionTimer",
        [w EXCEPT !.obs.last_op = "onLossDetectionTimeout",
                  !.obs.at_pto = [fired |-> w.obs.at_pto.fired + 1,
                                  sent |-> Len(w.obs.wire),
                                  PTO_count |-> w.sph.PTO_count,
                                  num_probes_to_send |-> w.sph.num_probes_to_send,
                                  mode |-> sendMode(w, TRUE)]], <<>>)

\* SentPacketHandler::onLossDetectionTimeout
onLossDetectionTimeout(w) ==
    LET w1 == IF w.sph.loss_time # 0 THEN Run("detectLostPackets", w, <<w.now>>)
              ELSE IF ~hasOutstandingPackets(w) THEN w
              ELSE [w EXCEPT !.sph.PTO_count = @ + 1,
                             !.sph.num_probes_to_send = @ + 2]
        seen == [fired |-> w.obs.at_pto.fired + 1, sent |-> Len(w.obs.wire),
                 PTO_count |-> w1.sph.PTO_count,
                 num_probes_to_send |-> w1.sph.num_probes_to_send,
                 mode |-> sendMode(w1, TRUE)]
    IN Then([w1 EXCEPT !.obs.last_op = "onLossDetectionTimeout", !.obs.at_pto = seen],
            LAMBDA x : Run("setLossDetectionTimer", x, <<>>))

(***************************************************************************)
(* ReceivedPacketHistory: m_ranges is a sequence of intervals [start, end] *)
(* in list order (front first).                                            *)
(***************************************************************************)
Interval(a, b) == [start |-> a, end |-> b]

InsertAt(q, i, x) == SubSeq(q, 1, i) \o <<x>> \o SubSeq(q, i + 1, Len(q))

RemoveAt(q, i) == SubSeq(q, 1, i - 1) \o SubSeq(q, i + 1, Len(q))

\* ReceivedPacketHistory::addToRanges: the positions at which the reverse walk
\* over the list would return
addToRangesStops(r, pn) ==
    {i \in 1..Len(r) : \/ pn >= r[i].start /\ pn <= r[i].end
                       \/ r[i].end = pn - 1
                       \/ r[i].start = pn + 1
                       \/ pn > r[i].end}

\* a walk that extends a range downwards without joining it to the one below
extendApart(r, i, pn) ==
    IF pn >= r[i].start /\ pn <= r[i].end THEN <<r, FALSE>>
    ELSE IF r[i].end = pn - 1 THEN <<[r EXCEPT ![i].end = pn], TRUE>>
    ELSE IF r[i].start = pn + 1 THEN <<[r EXCEPT ![i].start = pn], TRUE>>
    ELSE <<InsertAt(r, i, Interval(pn, pn)), TRUE>>

\* what the walk does at the position i where it returns;
\* the result is <<ranges, is_new>>
addToRangesAt(r, i, pn) ==
    IF pn >= r[i].start /\ pn <= r[i].end THEN <<r, FALSE>>
    ELSE IF r[i].end = pn - 1 THEN <<[r EXCEPT ![i].end = pn], TRUE>>
    ELSE IF r[i].start = pn + 1
    THEN IF i > 1 /\ r[i - 1].end + 1 = pn
         THEN <<RemoveAt([r EXCEPT ![i - 1].end = r[i].end], i), TRUE>>
         ELSE <<[r EXCEPT ![i].start = pn], TRUE>>
    ELSE <<InsertAt(r, i, Interval(pn, pn)), TRUE>>

\* the walk starts at the back of the list and returns at the first stop it
\* meets; with no stop the number goes to the front
addToRanges(r, pn) ==
    IF r = <<>> THEN <<(<<Interval(pn, pn)>>), TRUE>>
    ELSE IF addToRangesStops(r, pn) = {} THEN <<(<<Interval(pn, pn)>> \o r), TRUE>>
    ELSE addToRangesAt(r, CHOOSE i \in addToRangesStops(r, pn) :
                              \A j \in addToRangesStops(r, pn) : j <= i, pn)

\* a history that never drops a range
keepAllRanges(r) == r

\* ReceivedPacketHistory::maybeDeleteOldRanges
RECURSIVE maybeDeleteOldRanges(_)
maybeDeleteOldRanges(r) ==
    IF Len(r) > MaxNumberAckRanges THEN maybeDeleteOldRanges(Tail(r)) ELSE r

\* ReceivedPacketHistory::receivedPacket; the result is <<ranges, is_new>>
histReceivedPacket(t, pn) ==
    IF pn < t.deleted_below THEN <<t.ranges, FALSE>>
    ELSE LET a == addToRanges(t.ranges, pn)
         IN <<maybeDeleteOldRanges(a[1]), a[2]>>

\* ReceivedPacketHistory::deleteBelow on the ranges from position i
RECURSIVE deleteBelowAt(_, _, _)
deleteBelowAt(r, i, pn) ==
    IF i > Len(r) THEN r
    ELSE IF r[i].end < pn THEN deleteBelowAt(RemoveAt(r, i), i, pn)
    ELSE IF pn > r[i].start /\ pn <= r[i].end THEN [r EXCEPT ![i].start = pn]
    ELSE deleteBelowAt(r, i + 1, pn)

deleteBelow(t, pn) ==
    IF pn < t.deleted_below THEN t
    ELSE [t EXCEPT !.deleted_below = pn, !.ranges = deleteBelowAt(@, 1, pn)]

\* ReceivedPacketHistory::getAckRanges: highest range first
getAckRanges(t) ==
    [i \in 1..Len(t.ranges) |->
        [smallest |-> t.ranges[Len(t.ranges) + 1 - i].start,
         largest |-> t.ranges[Len(t.ranges) + 1 - i].end]]

(***************************************************************************)
(* ReceivedPacketTracker.                                                  *)
(***************************************************************************)
\* QuicAckFrame::acksPacket
RECURSIVE ackRangeIndex(_, _, _)
ackRangeIndex(f, i, pn) ==
    IF i <= Len(f.ranges) /\ pn < f.ranges[i].smallest
    THEN ackRangeIndex(f, i + 1, pn) ELSE i

acksPacket(f, pn) ==
    IF pn < lowestAcked(f) \/ pn > largestAcked(f) THEN FALSE
    ELSE pn <= f.ranges[ackRangeIndex(f, 1, pn)].largest

\* ReceivedPacketTracker::isMissing
isMissing(t, pn) ==
    IF t.last_ack = NoFrame \/ pn < t.ignore_below THEN FALSE
    ELSE pn < largestAcked(t.last_ack) /\ ~acksPacket(t.last_ack, pn)

\* ReceivedPacketTracker::hasNewMissingPackets
hasNewMissingPackets(t) ==
    IF t.last_ack = NoFrame THEN FALSE
    ELSE LET highest == t.ranges[Len(t.ranges)]
         IN highest.start > largestAcked(t.last_ack) + 1
            /\ highest.end - highest.start + 1 = 1

\* a tracker that leaves every ACK after the first to the alarm
queueAckByAlarmOnly(t, pn, recv_time, was_missing) ==
    IF t.last_ack = NoFrame THEN [t EXCEPT !.ack_queued = TRUE]
    ELSE IF t.ack_queued THEN t
    ELSE [t EXCEPT !.since_last_ack = @ + 1,
                   !.ack_alarm = IF @ = 0 THEN recv_time + MaxAckDelay ELSE @]

\* ReceivedPacketTracker::maybeQueueAck
maybeQueueAck(t, pn, recv_time, was_missing) ==
    IF t.last_ack = NoFrame THEN [t EXCEPT !.ack_queued = TRUE]
    ELSE IF t.ack_queued THEN t
    ELSE LET n == t.since_last_ack + 1
             t1 == [t EXCEPT !.since_last_ack = n,
                             !.ack_queued = was_missing \/ n >= PacketsBeforeAck,
                             !.ack_alarm = IF n < PacketsBeforeAck /\ @ = 0
                                           THEN recv_time + MaxAckDelay ELSE @]
             t2 == IF hasNewMissingPackets(t1) THEN [t1 EXCEPT !.ack_queued = TRUE]
                   ELSE t1
         IN IF t2.ack_queued THEN [t2 EXCEPT !.ack_alarm = 0] ELSE t2

\* ReceivedPacketTracker::receivedPacket
trackerReceivedPacket(t, pn, recv_time, should_instigate_ack) ==
    IF pn < t.ignore_below THEN t
    ELSE LET is_missing == isMissing(t, pn)
             t1 == IF pn >= t.largest_observed
                   THEN [t EXCEPT !.largest_observed = pn,
                                  !.largest_observed_received_time = recv_time]
                   ELSE t
             h == histReceivedPacket(t1, pn)
             t2 == [t1 EXCEPT !.ranges = h[1],
                              !.has_new_ack = @ \/ (h[2] /\ should_instigate_ack)]
         IN IF should_instigate_ack THEN maybeQueueAck(t2, pn, recv_time, is_missing)
            ELSE t2

\* ReceivedPacketTracker::getAckFrame: the frame returned, NoFrame for nullptr
getAckFrame(t, only_if_queued, t_now) ==
    IF ~t.has_new_ack THEN NoFrame
    ELSE IF only_if_queued /\ ~t.ack_queued /\ (t.ack_alarm = 0 \/ t.ack_alarm > t_now)
    THEN NoFrame
    ELSE [type |-> "ACK", ranges |-> getAckRanges(t),
          delay |-> IF t_now < t.largest_observed_received_time THEN 0
                    ELSE t_now - t.largest_observed_received_time]

\* the tracker after getAckFrame returned frame a
afterGetAckFrame(t, a) ==
    IF a = NoFrame THEN t
    ELSE [t EXCEPT !.last_ack = a, !.ack_alarm = 0, !.ack_queued = FALSE,
                   !.has_new_ack = FALSE, !.since_last_ack = 0]

(***************************************************************************)
(* Receive side of stream 0: flow controller, frame sorter, QuicRcvStream. *)
(***************************************************************************)
\* StreamFlowController::updateHighestReceived; <<controller fields, ok>>
updateHighestReceived(r, offset, final) ==
    IF r.fc_received_final /\ ((final /\ offset # r.fc_highest_received)
                               \/ offset > r.fc_highest_received)
    THEN <<r, FALSE>>
    ELSE LET r1 == IF final THEN [r EXCEPT !.fc_received_final = TRUE] ELSE r
         IN IF offset = r.fc_highest_received THEN <<r1, TRUE>>
            ELSE IF offset < r.fc_highest_received THEN <<r1, ~final>>
            ELSE IF offset > r.fc_receive_window THEN <<r1, FALSE>>
            ELSE <<[r1 EXCEPT !.fc_highest_received = offset], TRUE>>

\* StreamFlowController::getWinUpdate
getWinUpdate(r) ==
    IF 2 * (r.fc_highest_received - r.fc_last_update_at) > InitialRecvWin
    THEN r.fc_bytes_read + MaxRecvWin ELSE 0

\* StreamFlowController::addBytesRead
addBytesRead(w, n) ==
    LET w1 == [w EXCEPT !.rcv.fc_bytes_read = @ + n]
    IN IF getWinUpdate(w1.rcv) # 0
       THEN Run("signalWrite", [w1 EXCEPT !.sess.win_queue = @ \cup {SessionStreamId}], <<>>)
       ELSE w1

\* WinUpdateQueue::queueAll
queueAll(w) ==
    IF SessionStreamId \in w.sess.win_queue /\ getWinUpdate(w.rcv) # 0
    THEN Run("queueControlFrame", [w EXCEPT !.sess.win_queue = {},
                       !.rcv.fc_receive_window = getWinUpdate(w.rcv),
                       !.rcv.fc_last_update_at = w.rcv.fc_highest_received], <<ControlFrame("MAX_STREAM_DATA", getWinUpdate(w.rcv))>>)
    ELSE [w EXCEPT !.sess.win_queue = {}]

\* the entries of the sorter that cover byte b
Covering(entries, b) == {i \in 1..Len(entries) :
                            entries[i].offset <= b /\ b < entries[i].offset + entries[i].len}

\* first byte at or after b that no stored entry covers
RECURSIVE FirstFree(_, _)
FirstFree(entries, b) ==
    IF Covering(entries, b) = {} THEN b
    ELSE LET i == CHOOSE k \in Covering(entries, b) : TRUE
         IN FirstFree(entries, entries[i].offset + entries[i].len)

\* insertion keeping the entries ordered by offset
RECURSIVE InsertSorted(_, _)
InsertSorted(entries, e) ==
    IF entries = <<>> THEN <<e>>
    ELSE IF e.offset < Head(entries).offset THEN <<e>> \o entries
    ELSE <<Head(entries)>> \o InsertSorted(Tail(entries), e)

\* FrameSorter::push
sorterPush(q, offset, n) ==
    LET start == FirstFree(q.entries, Max(offset, q.read_pos))
        later == {q.entries[i].offset : i \in 1..Len(q.entries)} \cap (start..(offset + n))
        stop == IF later = {} THEN offset + n
                ELSE CHOOSE m \in later : \A k \in later : m <= k
    IN IF start >= stop THEN q
       ELSE [q EXCEPT !.entries = InsertSorted(@, [offset |-> start, len |-> stop - start])]

\* FiberSemaphore::notify on m_wait_read_sem
rcvSignalRead(w) ==
    IF w.app.reader.pc = "waiting" /\ ~w.app.reader.woken
    THEN [w EXCEPT !.app.reader.woken = TRUE]
    ELSE [w EXCEPT !.rcv.read_sem = @ + 1]

\* QuicRcvStream::handleStreamFrame; .ret.err is the error code returned
handleStreamFrame(w, f) ==
    LET max_offset == f.offset + f.len
        u == updateHighestReceived(w.rcv, max_offset, f.fin)
        w1 == [w EXCEPT !.rcv = u[1]]
        w2 == IF f.fin THEN [w1 EXCEPT !.rcv.final_offset = f.offset + f.len] ELSE w1
    IN IF ~u[2] THEN [w1 EXCEPT !.ret.err = "FLOW_CONTROL_ERROR"]
       ELSE IF w2.rcv.canceled_read
       THEN [Run("onStreamCompleted", w2, <<SessionStreamId>>) EXCEPT !.ret.err = "INTERNAL_ERROR"]
       ELSE Run("rcvSignalRead", [w2 EXCEPT !.rcv.sorter = sorterPush(@, f.offset, f.len),
                                     !.ret.err = "NO_ERROR"], <<>>)

\* QuicRcvStream::handleRstStreamFrame; it returns nullptr on every path
handleRstStreamFrame(w, final_offset) ==
    LET u == updateHighestReceived(w.rcv, final_offset, TRUE)
        newly == w.rcv.final_offset = InvalidPn
        w1 == [w EXCEPT !.rcv = [u[1] EXCEPT !.final_offset = final_offset],
                        !.ret.err = "NONE"]
    IN IF w.rcv.shutdown THEN [w EXCEPT !.ret.err = "NONE"]
       ELSE IF ~u[2] THEN [w EXCEPT !.rcv = u[1], !.ret.err = "NONE"]
       ELSE IF w1.rcv.reset_by_remote THEN w1
       ELSE LET w2 == Run("rcvSignalRead", [w1 EXCEPT !.rcv.reset_by_remote = TRUE], <<>>)
            IN IF newly THEN Run("onStreamCompleted", w2, <<SessionStreamId>>) ELSE w2

\* a dequeue that finds the end of the stream only together with data
dequeueWithoutEmptyEnd(w) ==
    LET q == w.rcv.sorter
        found == {i \in 1..Len(q.entries) : q.entries[i].offset = q.read_pos}
    IN IF found = {}
       THEN [w EXCEPT !.rcv.cur_len = 0, !.rcv.read_pos_in_frame = 0,
                      !.rcv.cur_is_last = FALSE]
       ELSE LET i == CHOOSE k \in found : TRUE
                e == q.entries[i]
            IN [w EXCEPT !.rcv.sorter.entries = RemoveAt(@, i),
                         !.rcv.sorter.read_pos = @ + e.len,
                         !.rcv.cur_len = e.len, !.rcv.read_pos_in_frame = 0,
                         !.rcv.cur_is_last = q.read_pos + e.len >= w.rcv.final_offset]

\* FrameSorter::pop and QuicRcvStream::dequeueNextFrame
dequeueNextFrame(w) ==
    LET q == w.rcv.sorter
        found == {i \in 1..Len(q.entries) : q.entries[i].offset = q.read_pos}
    IN IF found = {}
       THEN [w EXCEPT !.rcv.cur_len = 0, !.rcv.read_pos_in_frame = 0,
                      !.rcv.cur_is_last = q.read_pos >= w.rcv.final_offset]
       ELSE LET i == CHOOSE k \in found : TRUE
                e == q.entries[i]
            IN [w EXCEPT !.rcv.sorter.entries = RemoveAt(@, i),
                         !.rcv.sorter.read_pos = @ + e.len,
                         !.rcv.cur_len = e.len, !.rcv.read_pos_in_frame = 0,
                         !.rcv.cur_is_last = q.read_pos + e.len >= w.rcv.final_offset]

\* read returns: the reader fiber is idle again and the result is logged
readReturn(w, ok, err) ==
    [w EXCEPT !.obs.read_result = [ok |-> ok, n |-> w.app.reader.got, err |-> err],
              !.obs.reads_returned = @ + 1,
              !.app.reader = [pc |-> "idle", woken |-> FALSE, want |-> 0, got |-> 0]]

\* QuicRcvStream::read from the top of the for(;;) loop to the next waitRead()
\* or the return
RECURSIVE readInner(_)
readInner(w) ==
    IF w.rcv.shutdown THEN Run("readReturn", w, <<FALSE, "SHUTDOWN">>)
    ELSE IF w.rcv.canceled_read THEN Run("readReturn", w, <<FALSE, "CANCEL_READ">>)
    ELSE IF w.rcv.reset_by_remote THEN Run("readReturn", w, <<FALSE, "RESET_BY_REMOTE">>)
    ELSE IF w.rcv.cur_len > 0 \/ w.rcv.cur_is_last
    THEN LET copy_len == Min(w.app.reader.want - w.app.reader.got,
                             w.rcv.cur_len - w.rcv.read_pos_in_frame)
             w1 == Run("addBytesRead", [w EXCEPT !.rcv.read_pos_in_frame = @ + copy_len,
                                          !.app.reader.got = @ + copy_len], <<copy_len>>)
         IN IF w1.rcv.read_pos_in_frame >= w1.rcv.cur_len /\ w1.rcv.cur_is_last
            THEN Run("readReturn", [w1 EXCEPT !.rcv.fin_read = TRUE], <<TRUE, "STREAM_EOF">>)
            ELSE IF w1.app.reader.got >= w1.app.reader.want
            THEN Run("readReturn", w1, <<FALSE, "OK">>)
            ELSE LET w2 == IF w1.rcv.cur_len = 0
                              \/ w1.rcv.read_pos_in_frame >= w1.rcv.cur_len
                           THEN Run("dequeueNextFrame", w1, <<>>) ELSE w1
                 IN IF w2.rcv.cur_len = 0 /\ w2.app.reader.got > 0
                    THEN Run("readReturn", w2, <<FALSE, "SHUTDOWN">>)
                    ELSE readInner(w2)
    ELSE IF w.rcv.read_sem > 0
    THEN readInner(IF w.rcv.cur_len = 0
                   THEN Run("dequeueNextFrame", [w EXCEPT !.rcv.read_sem = @ - 1], <<>>)
                   ELSE [w EXCEPT !.rcv.read_sem = @ - 1])
    ELSE [w EXCEPT !.app.reader.pc = "waiting", !.app.reader.woken = FALSE]

\* QuicRcvStream::read, from the call to the first suspension or the return
rcvRead(w, length) ==
    LET w0 == [w EXCEPT !.app.reader.want = length, !.app.reader.got = 0]
    IN IF w.rcv.fin_read THEN Run("readReturn", w0, <<FALSE, "STREAM_EOF">>)
       ELSE IF w.rcv.canceled_read THEN Run("readReturn", w0, <<FALSE, "CANCEL_READ">>)
       ELSE IF w.rcv.reset_by_remote THEN Run("readReturn", w0, <<FALSE, "RESET_BY_REMOTE">>)
       ELSE IF w.rcv.shutdown THEN Run("readReturn", w0, <<FALSE, "SHUTDOWN">>)
       ELSE LET w1 == IF w0.rcv.cur_len = 0
                         \/ w0.rcv.read_pos_in_frame >= w0.rcv.cur_len
                      THEN Run("dequeueNextFrame", w0, <<>>) ELSE w0
            IN Run("readInner", w1, <<>>)

\* QuicRcvStream::read resumed after waitRead()
rcvReadResume(w) ==
    Run("readInner", IF w.rcv.cur_len = 0 THEN Run("dequeueNextFrame", w, <<>>) ELSE w, <<>>)

(***************************************************************************)
(* QuicIncomingBidiStreamsMap (streams the peer opens).                    *)
(***************************************************************************)
\* FiberSemaphore::notify on the accept semaphore
signalAccept(w) ==
    IF w.app.acceptor.pc = "waiting" /\ ~w.app.acceptor.woken
    THEN [w EXCEPT !.app.acceptor.woken = TRUE]
    ELSE [w EXCEPT !.smap.accept_sem = @ + 1]

\* the opening loop of QuicIncomingBidiStreamsMap::getOrOpenStream
RECURSIVE openIncoming(_, _, _)
openIncoming(w, new_num, num) ==
    IF new_num > num THEN [w EXCEPT !.smap.next_stream_to_open = num + 1]
    ELSE openIncoming(Run("signalAccept", [w EXCEPT !.smap.in_streams = @ \cup {new_num},
                                                    !.smap.null_entries = @ \ {new_num}], <<>>),
                      new_num + 1, num)

\* QuicIncomingBidiStreamsMap::getOrOpenStream; .ret.more tells a stream was returned
getOrOpenStream(w, num) ==
    IF num > w.smap.max_stream THEN [w EXCEPT !.ret.more = FALSE]
    ELSE IF num < w.smap.next_stream_to_open /\ num \in w.smap.in_streams
    THEN [w EXCEPT !.ret.more = TRUE]
    ELSE IF num < w.smap.next_stream_to_open /\ num \in w.smap.null_entries
    THEN [w EXCEPT !.ret.more = FALSE]
    ELSE LET w1 == Run("openIncoming", w, <<w.smap.next_stream_to_open, num>>)
         IN \* QuicStreamEntry entry = m_streams[num] stores an empty entry for a
            \* number the loop did not create
            IF num \in w1.smap.in_streams THEN [w1 EXCEPT !.ret.more = TRUE]
            ELSE [w1 EXCEPT !.smap.null_entries = @ \cup {num}, !.ret.more = FALSE]

\* QuicIncomingBidiStreamsMap::deleteStreamImp; .ret.more is the result.  The
\* stream count is turned into a number as a stream id is: a quarter of it, plus one
deleteStreamImp(w, num) ==
    IF num \notin w.smap.in_streams \cup w.smap.null_entries THEN [w EXCEPT !.ret.more = FALSE]
    ELSE IF num >= w.smap.next_stream_to_accept THEN [AssertFail(w) EXCEPT !.ret.more = TRUE]
    ELSE LET w1 == [w EXCEPT !.smap.in_streams = @ \ {num},
                             !.smap.null_entries = @ \ {num}, !.ret.more = TRUE]
             size == Cardinality(w1.smap.in_streams \cup w1.smap.null_entries)
             max_stream == w1.smap.next_stream_to_open
                               + (((w1.smap.max_num_streams - size) \div 4) + 1) - 1
         IN IF size < w1.smap.max_num_streams /\ max_stream <= 1024
            THEN Run("queueControlFrame", [w1 EXCEPT !.smap.max_stream = max_stream],
                     <<ControlFrame("MAX_STREAMS", max_stream)>>)
            ELSE w1

\* acceptStream returns: the acceptor fiber is idle again and the result is logged
acceptReturn(w, num) ==
    [w EXCEPT !.obs.accepted = Append(@, num),
              !.app.acceptor = [pc |-> "idle", woken |-> FALSE]]

\* QuicIncomingBidiStreamsMap::acceptStream after a waitAccept() returned
RECURSIVE acceptLoop(_)
acceptLoop(w) ==
    LET num == w.smap.next_stream_to_accept
    IN IF w.smap.closed THEN Run("acceptReturn", w, <<0>>)
       ELSE IF num \in w.smap.in_streams
       THEN Run("acceptReturn", [w EXCEPT !.smap.next_stream_to_accept = @ + 1], <<num>>)
       ELSE IF w.smap.accept_sem > 0
       THEN acceptLoop([w EXCEPT !.smap.accept_sem = @ - 1])
       ELSE [w EXCEPT !.app.acceptor.pc = "waiting", !.app.acceptor.woken = FALSE]

\* QuicIncomingBidiStreamsMap::acceptStream, from the call
acceptStream(w) ==
    IF w.smap.accept_sem > 0 THEN Run("acceptLoop", [w EXCEPT !.smap.accept_sem = @ - 1], <<>>)
    ELSE [w EXCEPT !.app.acceptor.pc = "waiting", !.app.acceptor.woken = FALSE]

(***************************************************************************)
(* QuicSession: composing and sending packets.  A payload under            *)
(* construction is w.pay = [ack, frames, length].                          *)
(***************************************************************************)
\* QuicEPacketHeader::getLength of the short header from getShortHeader
HeaderLen(pn) == 1 + CidLen + (IF pn < 32768 THEN 2 ELSE IF pn < 8388608 THEN 3 ELSE 4)

\* ConnectionFlowController::isNewlyBlocked, then queueControlFrame(DATA_BLOCKED)
connNewlyBlocked(w) ==
    IF w.sess.conn_send_win = w.sess.conn_bytes_sent
       /\ w.sess.conn_send_win # w.sess.conn_last_blocked_at
       /\ w.sess.conn_send_win # 0
    THEN Run("queueControlFrame", [w EXCEPT !.sess.conn_last_blocked_at = w.sess.conn_send_win], <<ControlFrame("DATA_BLOCKED", w.sess.conn_send_win)>>)
    ELSE w

\* the retransmission loop of composeNextPacket with RetransmissionQueue::getAppDataFrame
RECURSIVE composeRetrans(_, _)
composeRetrans(w, max_payload_size) ==
    LET remain_len == max_payload_size - w.pay.length
    IN IF remain_len < MinRetransLen \/ w.sess.retrans_queue = <<>> THEN w
       ELSE LET f == Head(w.sess.retrans_queue)
            IN IF FrameSize(f) > remain_len THEN w
               ELSE composeRetrans(
                        [w EXCEPT !.sess.retrans_queue = Tail(@),
                                  !.pay.frames = Append(@, f),
                                  !.pay.tags = Append(@, "RETRANS"),
                                  !.pay.length = @ + FrameSize(f)],
                        max_payload_size)

\* QuicSession::appendControlFrames: from the back of m_control_frames
RECURSIVE appendControlFrames(_, _, _)
appendControlFrames(w, max_packet_size, payload_len) ==
    IF w.sess.control_frames = <<>> THEN [w EXCEPT !.pay.length = @ + payload_len]
    ELSE LET n == Len(w.sess.control_frames)
             frame == w.sess.control_frames[n]
         IN IF payload_len + FrameSize(frame) > max_packet_size
            THEN [w EXCEPT !.pay.length = @ + payload_len]
            ELSE appendControlFrames(
                     [w EXCEPT !.sess.control_frames = SubSeq(@, 1, n - 1),
                               !.pay.frames = Append(@, frame),
                               !.pay.tags = Append(@, "CONTROL"),
                               !.obs.ctrl_sent = Append(@, frame)],
                     max_packet_size, payload_len + FrameSize(frame))

\* QuicStreamManager::getOrOpenSendStream for a locally opened stream
hasSendStream(w, id) == (id \div 4) + 1 \in w.smap.out_streams

\* QuicStreamManager::getOrOpenSendStream(id)->m(a...): the call runs on the
\* send stream with that id and its writer; the other streams keep their state
onStream(w, id, m, a) ==
    IF id = w.snd.id THEN Run(m, w, a)
    ELSE LET r == Run(m, [w EXCEPT !.snd = w.sess.others[id].snd,
                                   !.app.writer = w.sess.others[id].writer], a)
         IN [r EXCEPT !.sess.others[id] = [snd |-> r.snd, writer |-> r.app.writer],
                      !.snd = w.snd, !.app.writer = w.app.writer]

\* whether the STREAM frame popped between w and w1 repeats data sent before
streamTag(w, w1) ==
    IF /\ Len(w1.obs.pops) > Len(w.obs.pops)
       /\ w1.obs.pops[Len(w1.obs.pops)].retrans
    THEN "STREAM_RETRANS" ELSE "STREAM_NEW"

\* the loop of QuicSession::popStreamFrames over the swapped-out queue q
RECURSIVE popStreamFramesLoop(_, _, _, _)
popStreamFramesLoop(w, q, payload_len, remain_size) ==
    IF q = <<>> \/ remain_size <= 0 \/ w.aborted
    THEN [w EXCEPT !.pay.length = @ + payload_len]
    ELSE LET id == Head(q)
         IN IF ~hasSendStream(w, id)
            THEN popStreamFramesLoop([w EXCEPT !.sess.active_streams = @ \ {id}],
                                     Tail(q), payload_len, remain_size)
            ELSE LET w1 == onStream(w, id, "popStreamFrame", <<remain_size>>)
                     frame == w1.ret.frame
                     w2 == IF w1.ret.more
                           THEN [w1 EXCEPT !.sess.stream_queue = Append(@, id)]
                           ELSE [w1 EXCEPT !.sess.active_streams = @ \ {id}]
                 IN IF frame = NoFrame \/ w1.aborted
                    THEN popStreamFramesLoop(w2, Tail(q), payload_len, remain_size)
                    ELSE popStreamFramesLoop(
                             [w2 EXCEPT !.pay.frames = Append(@, frame),
                                        !.pay.tags = Append(@, streamTag(w, w1))], Tail(q),
                             payload_len + FrameSize(frame),
                             remain_size - (payload_len + FrameSize(frame)))

\* QuicSession::popStreamFrames
popStreamFrames(w, max_packet_size) ==
    Run("popStreamFramesLoop", [w EXCEPT !.sess.stream_queue = <<>>], <<w.sess.stream_queue, 0, max_packet_size>>)

\* QuicSession::appendPacket: the ACK frame first, then the frames in the order composed
packetLayout(pay) == (IF pay.ack = NoFrame THEN <<>> ELSE <<"ACK">>) \o pay.tags

\* a composition that asks the streams for their frames before the control queue
composeStreamsFirst(w, max_payload_size) ==
    LET ack == getAckFrame(w.rpt, FALSE, w.now)
        w1 == [w EXCEPT !.rpt = afterGetAckFrame(@, ack),
                        !.pay = [ack |-> ack, frames |-> <<>>, tags |-> <<>>,
                                 length |-> IF ack = NoFrame THEN 0 ELSE FrameSize(ack)]]
        w2 == Run("composeRetrans", w1, <<max_payload_size>>)
        w3 == Run("popStreamFrames", w2, <<max_payload_size - w2.pay.length>>)
        w4 == Run("appendControlFrames", w3, <<max_payload_size - w3.pay.length, 0>>)
    IN IF w4.pay.ack = NoFrame /\ w4.pay.frames = <<>> THEN w4
       ELSE [w4 EXCEPT !.obs.layouts = @ \cup {packetLayout(w4.pay)}]

\* QuicSession::composeNextPacket
composeNextPacket(w, max_payload_size) ==
    LET has_retrans == w.sess.retrans_queue # <<>>
        ack == getAckFrame(w.rpt, FALSE, w.now)
        w1 == [w EXCEPT !.rpt = afterGetAckFrame(@, ack),
                        !.obs.early_ack = @ \/ (/\ ack # NoFrame
                                                /\ ~w.rpt.ack_queued
                                                /\ \/ w.rpt.ack_alarm = 0
                                                   \/ w.rpt.ack_alarm > w.now),
                        !.pay = [ack |-> ack, frames |-> <<>>, tags |-> <<>>,
                                 length |-> IF ack = NoFrame THEN 0 ELSE FrameSize(ack)]]
        w2 == IF has_retrans THEN Run("composeRetrans", w1, <<max_payload_size>>) ELSE w1
        w3 == Run("appendControlFrames", w2, <<max_payload_size - w2.pay.length, 0>>)
        w4 == Run("popStreamFrames", w3, <<max_payload_size - w3.pay.length>>)
    IN IF w4.pay.ack = NoFrame /\ w4.pay.frames = <<>> THEN w4
       ELSE [w4 EXCEPT !.obs.layouts = @ \cup {packetLayout(w4.pay)}]

\* PacketNumberManager::peek
peek(w) == w.pnm.next

\* a packet number manager that hands out the same number again
popSame(w) == w

\* PacketNumberManager::pop
pop(w) == [w EXCEPT !.pnm.next = @ + 1]

\* QuicPacket::init on the composed contents
NewPacket(w, pn) ==
    [pn |-> pn, send_time |-> w.now,
     len |-> HeaderLen(pn) + w.pay.length,
     frames |-> w.pay.frames, lost |-> FALSE, skip |-> FALSE, inflight |-> FALSE,
     largest_acked |-> IF w.pay.ack = NoFrame THEN InvalidPn
                       ELSE largestAcked(w.pay.ack)]

\* QuicSession::sendPacket; .ret.more is the result
sendPacket(w) ==
    LET w1 == Run("queueAll", connNewlyBlocked(w), <<>>)
        pn == peek(w1)
        w2 == Run("composeNextPacket", w1, <<MaxPacketSize - HeaderLen(pn)>>)
        put(x) == LET x1 == [x EXCEPT !.pkts = [q \in DOMAIN @ \cup {pn} |->
                                                  IF q = pn THEN NewPacket(x, pn)
                                                  ELSE @[q]]]
                      x2 == Run("sentPacket", x1, <<pn>>)
                      wire(y) == [Run("pop", [y EXCEPT !.obs.wire = Append(@, pn)], <<>>)
                                     EXCEPT !.ret.more = TRUE]
                  IN Then(x2, wire)
    IN IF w2.aborted THEN w2
       ELSE IF w2.pay.ack = NoFrame /\ w2.pay.frames = <<>>
       THEN [w2 EXCEPT !.ret.more = FALSE]
       ELSE put(w2)

\* QuicSession::sendProbePacket
RECURSIVE sendProbePacket(_)
sendProbePacket(w) ==
    LET w1 == Run("queueProbePacket", w, <<>>)
    IN IF w1.aborted \/ ~w1.ret.more THEN w1
       ELSE LET w2 == Run("sendPacket", w1, <<>>)
            IN IF w2.aborted THEN w2
               ELSE IF w2.ret.more THEN [w2 EXCEPT !.obs.probes = @ \cup {peek(w1)}]
               ELSE sendProbePacket(w2)

\* QuicSession::sendPackets; can_send and budget are the congestion controller's
\* answers to canSend and hasPacingBudget
RECURSIVE sendPacketsLoop(_, _, _, _)
sendPacketsLoop(w, count, can_send, budget) ==
    LET mode0 == sendMode(w, can_send)
        paced == mode0 = "ANY" /\ ~budget
        w0 == IF paced THEN [w EXCEPT !.sess.pacing_deadline = w.now + 1] ELSE w
        mode == IF paced THEN "ACK" ELSE mode0
    IN IF mode = "PTO_APP_DATA" THEN Run("sendProbePacket", w0, <<>>)
       ELSE IF mode = "ANY"
       THEN LET w1 == Run("sendPacket", w0, <<>>)
            IN IF w1.aborted \/ w1.sess.received_queue # <<>>
                  \/ ~w1.ret.more \/ count + 1 > 4
               THEN w1
               ELSE sendPacketsLoop(w1, count + 1, can_send, budget)
       ELSE w0

sendPackets(w, can_send, budget) ==
    LET mode0 == sendMode(w, can_send)
        r == Run("sendPacketsLoop", [w EXCEPT !.sess.pacing_deadline = 0], <<0, can_send, budget>>)
    IN [r EXCEPT !.obs.send_call =
                     [mode |-> IF mode0 = "ANY" /\ ~budget THEN "ACK" ELSE mode0,
                      ack_queued |-> w.rpt.ack_queued,
                      sent |-> Len(r.obs.wire) - Len(w.obs.wire)]]

(***************************************************************************)
(* QuicSession: inbound packets, the run loop, closing.                    *)
(***************************************************************************)
\* StreamFlowController::updateSendWin through QuicSndStream::updateSendWin
sndUpdateSendWin(w, limit) ==
    LET has_stream_data == w.snd.data_for_writing # 0 \/ w.snd.next_frame # NoFrame
        w1 == [w EXCEPT !.snd.fc_send_win = Max(@, limit)]
    IN IF has_stream_data THEN Run("onHasStreamData", w1, <<SessionStreamId>>) ELSE w1

\* QuicSession::handleFrame
handleFrame(w, f, t) ==
    IF f.type = "STREAM"
    THEN IF ~hasSendStream(w, SessionStreamId) THEN w
         ELSE LET w1 == Run("handleStreamFrame", w, <<f>>)
                  conflict == f.fin /\ w.rcv.final_offset # InvalidPn
                              /\ f.offset + f.len # w.rcv.final_offset
                  w2 == [w1 EXCEPT !.obs.frame_errors =
                                       @ \cup ({w1.ret.err} \ {"NO_ERROR"}),
                                   !.obs.final_conflicts =
                                       IF conflict THEN @ \cup {w1.ret.err} ELSE @,
                                   !.obs.final_changed =
                                       @ \/ (w.rcv.final_offset # InvalidPn
                                             /\ w1.rcv.final_offset # w.rcv.final_offset)]
              IN IF w1.ret.err # "NO_ERROR" THEN AssertFail(w2) ELSE w2
    ELSE IF f.type = "ACK" THEN Run("receivedAck", w, <<f, t>>)
    ELSE IF f.type = "CONNECTION_CLOSE"
    THEN [w EXCEPT !.obs.conn_close_received = TRUE,
                   !.obs.wire_at_close = IF w.obs.conn_close_received THEN @
                                         ELSE Len(w.obs.wire)]
    ELSE IF f.type = "MAX_DATA"
    THEN [w EXCEPT !.sess.conn_send_win = Max(@, f.value)]
    ELSE IF f.type = "MAX_STREAM_DATA"
    THEN IF hasSendStream(w, SessionStreamId) THEN Run("sndUpdateSendWin", w, <<f.value>>) ELSE w
    ELSE IF f.type = "STREAM_DATA_BLOCKED" THEN Run("getOrOpenStream", w, <<f.stream_num>>)
    ELSE IF f.type = "RESET_STREAM"
    THEN \* the stream is looked up and the frame dropped: no error is returned
         IF ~hasSendStream(w, SessionStreamId) THEN w
         ELSE LET w1 == [w EXCEPT !.obs.rst_handled = TRUE]
              IN IF w.rcv.final_offset # InvalidPn /\ f.final_size # w.rcv.final_offset
                 THEN [w1 EXCEPT !.obs.final_conflicts = @ \cup {"NO_ERROR"}]
                 ELSE w1
    \* MAX_STREAMS has no case of its own: the default case drops the frame
    ELSE IF f.type = "MAX_STREAMS"
    THEN [w EXCEPT !.obs.max_streams_seen = Max(@, f.value)]
    ELSE w

RECURSIVE handleFrames(_, _, _)
handleFrames(w, fs, t) ==
    IF fs = <<>> \/ w.aborted THEN w
    ELSE handleFrames(Run("handleFrame", w, <<Head(fs), t>>), Tail(fs), t)

\* QuicSession::handlePacket and handleUnpackedPacket
handlePacket(w, p) ==
    LET is_ack_eliciting == \E i \in 1..Len(p.frames) : isFrameAckEliciting(p.frames[i])
        w1 == Run("handleFrames", w, <<p.frames, p.time>>)
        track(x) == [x EXCEPT !.rpt = trackerReceivedPacket(@, p.pn, p.time,
                                                            is_ack_eliciting)]
    IN Then(w1, track)

RECURSIVE handlePackets(_, _)
handlePackets(w, ps) ==
    IF ps = <<>> \/ w.aborted THEN w
    ELSE handlePackets(Run("handlePacket", w, <<Head(ps)>>), Tail(ps))

\* QuicSession::signalRead
sessSignalRead(w, p) ==
    LET empty == w.sess.received_queue = <<>>
        w1 == IF p = NoFrame THEN w ELSE [w EXCEPT !.sess.received_queue = Append(@, p)]
    IN IF empty THEN SemNotify(w1, "READ") ELSE w1

\* QuicSession::closeSession
closeSession(w) ==
    LET blocked == {c \in {"reader", "writer", "acceptor"} :
                       w.app[c].pc = "waiting" /\ ~w.app[c].woken}
        w1 == [w EXCEPT !.sess.is_alive = FALSE, !.obs.blocked_at_close = blocked]
    IN Run("sessSignalRead", Run("signalWrite", w1, <<>>), <<NoFrame>>)

\* QuicSession::maybeResetTimer: the time the run loop's timer fires
maybeResetTimer(w) ==
    LET d0 == w.now + 30000
        d1 == IF w.rpt.ack_alarm # 0 THEN Min(d0, w.rpt.ack_alarm) ELSE d0
        d2 == IF w.sph.alarm # 0 THEN Min(d1, w.sph.alarm) ELSE d1
    IN IF w.sess.pacing_deadline # 0 THEN Min(d2, w.sess.pacing_deadline) ELSE d2

\* the top of the while loop of QuicSession::run_impl, up to the wait()
runLoopTop(w) ==
    IF ~w.sess.is_alive THEN [w EXCEPT !.sess.running = FALSE]
    ELSE IF maybeResetTimer(w) <= w.now
    THEN SemNotify([w EXCEPT !.sess.timer_at = 0], "NONE")
    ELSE [w EXCEPT !.sess.timer_at = maybeResetTimer(w)]

\* one pass of QuicSession::run_impl, from the return of wait() to the next wait()
runLoopBody(w, can_send, budget) ==
    LET w1 == Run("handlePackets", [w EXCEPT !.sess.received_queue = <<>>], <<w.sess.received_queue>>)
        timeout(x) == IF x.sph.alarm # 0 /\ x.sph.alarm < x.now
                      THEN Run("onLossDetectionTimeout", x, <<>>) ELSE x
        w2 == Then(w1, timeout)
        w3 == Then(w2, LAMBDA x : Run("sendPackets", x, <<can_send, budget>>))
    IN Then(w3, LAMBDA x : Run("runLoopTop", x, <<>>))

\* QuicOutgoingBidiStreamsMap::openStream
openStream(w) ==
    LET seen(ok) == [w EXCEPT !.obs.opens = @ \cup {[num |-> w.smap.out_next_stream,
                                                     limit |-> w.smap.out_max_stream,
                                                     announced |-> w.obs.max_streams_seen,
                                                     ok |-> ok]}]
    IN IF w.smap.out_closed THEN seen(FALSE)
       ELSE IF w.smap.out_next_stream >= w.smap.out_max_stream
       THEN IF w.smap.out_blocked_sent THEN seen(FALSE)
            ELSE Run("queueControlFrame", [seen(FALSE) EXCEPT !.smap.out_blocked_sent = TRUE], <<ControlFrame("STREAMS_BLOCKED", 0)>>)
       ELSE [seen(TRUE) EXCEPT !.smap.out_streams = @ \cup {w.smap.out_next_stream},
                               !.smap.out_next_stream = @ + 1,
                               !.app.opened = TRUE]

\* every method call: the methods call one another through Run
Run(m, w, a) ==
    CASE m = "signalWrite" -> signalWrite(w)
      [] m = "streamBlocked" -> streamBlocked(w)
      [] m = "addActiveStream" -> addActiveStream(w, a[1])
      [] m = "onHasStreamData" -> onHasStreamData(w, a[1])
      [] m = "queueControlFrame" -> queueControlFrame(w, a[1])
      [] m = "addAppData" -> addAppData(w, a[1])
      [] m = "onStreamCompleted" -> onStreamCompleted(w, a[1])
      [] m = "sndSignalWrite" -> sndSignalWrite(w)
      [] m = "frameAcked" -> frameAcked(w, a[1])
      [] m = "queueRetransmission" -> queueRetransmission(w, a[1])
      [] m = "FrameOnAcked" -> FrameOnAcked(w, a[1])
      [] m = "FrameOnLost" -> FrameOnLost(w, a[1])
      [] m = "FramesOnAcked" -> FramesOnAcked(w, a[1])
      [] m = "FramesOnLost" -> FramesOnLost(w, a[1])
      [] m = "addBytesSent" -> addBytesSent(w, a[1])
      [] m = "isNewlyBlockedMark" -> isNewlyBlockedMark(w)
      [] m = "get_data_for_writing" -> get_data_for_writing(w, a[1])
      [] m = "popNewStreamFrameWithoutBuffer" -> popNewStreamFrameWithoutBuffer(w, a[1], a[2])
      [] m = "popNewStreamFrame" -> popNewStreamFrame(w, a[1], a[2])
      [] m = "maybeGetRetransmission" -> maybeGetRetransmission(w, a[1])
      [] m = "popNewOrRetransmissitedStreamFrame" -> popNewOrRetransmissitedStreamFrame(w, a[1])
      [] m = "popStreamFrame" -> popStreamFrame(w, a[1])
      [] m = "sndClose" -> sndClose(w)
      [] m = "writeLoop" -> writeLoop(w)
      [] m = "sndWrite" -> sndWrite(w, a[1])
      [] m = "histSkip" -> histSkip(w, a[1], a[2], a[3])
      [] m = "histSentPacket" -> histSentPacket(w, a[1], a[2], a[3])
      [] m = "histRemove" -> histRemove(w, a[1])
      [] m = "deleteOldFrom" -> deleteOldFrom(w, a[1], a[2])
      [] m = "deleteOldPackets" -> deleteOldPackets(w, a[1])
      [] m = "removeFromBytesInflight" -> removeFromBytesInflight(w, a[1])
      [] m = "sentPacketImpl" -> sentPacketImpl(w, a[1])
      [] m = "setLossDetectionTimer" -> setLossDetectionTimer(w)
      [] m = "sentPacket" -> sentPacket(w, a[1])
      [] m = "queueFramesForRetransmission" -> queueFramesForRetransmission(w, a[1])
      [] m = "setLost" -> setLost(w, a[1])
      [] m = "queueProbePacket" -> queueProbePacket(w)
      [] m = "detectLostFrom" -> detectLostFrom(w, a[1], a[2])
      [] m = "detectLostPackets" -> detectLostPackets(w, a[1])
      [] m = "collectAcked" -> collectAcked(w, a[1], a[2], a[3], a[4])
      [] m = "removeAcked" -> removeAcked(w, a[1], a[2])
      [] m = "detectAndRemoveAckedPackets" -> detectAndRemoveAckedPackets(w, a[1])
      [] m = "removeAllFromBytesInflight" -> removeAllFromBytesInflight(w, a[1])
      [] m = "receivedAckTail" -> receivedAckTail(w, a[1], a[2])
      [] m = "receivedAck" -> receivedAck(w, a[1], a[2])
      [] m = "onLossDetectionTimeout" -> onLossDetectionTimeout(w)
      [] m = "addBytesRead" -> addBytesRead(w, a[1])
      [] m = "queueAll" -> queueAll(w)
      [] m = "rcvSignalRead" -> rcvSignalRead(w)
      [] m = "handleStreamFrame" -> handleStreamFrame(w, a[1])
      [] m = "handleRstStreamFrame" -> handleRstStreamFrame(w, a[1])
      [] m = "deleteStreamImp" -> deleteStreamImp(w, a[1])
      [] m = "dequeueNextFrame" -> dequeueNextFrame(w)
      [] m = "readReturn" -> readReturn(w, a[1], a[2])
      [] m = "readInner" -> readInner(w)
      [] m = "rcvRead" -> rcvRead(w, a[1])
      [] m = "rcvReadResume" -> rcvReadResume(w)
      [] m = "signalAccept" -> signalAccept(w)
      [] m = "openIncoming" -> openIncoming(w, a[1], a[2])
      [] m = "getOrOpenStream" -> getOrOpenStream(w, a[1])
      [] m = "acceptReturn" -> acceptReturn(w, a[1])
      [] m = "acceptLoop" -> acceptLoop(w)
      [] m = "acceptStream" -> acceptStream(w)
      [] m = "composeRetrans" -> composeRetrans(w, a[1])
      [] m = "appendControlFrames" -> appendControlFrames(w, a[1], a[2])
      [] m = "popStreamFramesLoop" -> popStreamFramesLoop(w, a[1], a[2], a[3])
      [] m = "popStreamFrames" -> popStreamFrames(w, a[1])
      [] m = "composeNextPacket" -> composeNextPacket(w, a[1])
      [] m = "pop" -> pop(w)
      [] m = "sendPacket" -> sendPacket(w)
      [] m = "sendProbePacket" -> sendProbePacket(w)
      [] m = "sendPacketsLoop" -> sendPacketsLoop(w, a[1], a[2], a[3])
      [] m = "sendPackets" -> sendPackets(w, a[1], a[2])
      [] m = "sndUpdateSendWin" -> sndUpdateSendWin(w, a[1])
      [] m = "handleFrame" -> handleFrame(w, a[1], a[2])
      [] m = "handleFrames" -> handleFrames(w, a[1], a[2])
      [] m = "handlePacket" -> handlePacket(w, a[1])
      [] m = "handlePackets" -> handlePackets(w, a[1])
      [] m = "sessSignalRead" -> sessSignalRead(w, a[1])
      [] m = "closeSession" -> closeSession(w)
      [] m = "runLoopTop" -> runLoopTop(w)
      [] m = "runLoopBody" -> runLoopBody(w, a[1], a[2])
      [] m = "openStream" -> openStream(w)

(***************************************************************************)
(* Initial state: a client session just constructed, its run loop waiting. *)
(***************************************************************************)
EmptyMap == [q \in {} |-> 0]

\* QuicSndStream::QuicSndStream for stream id with the flow controller of
\* QuicSession::newFlowController
NewSndStream(id) ==
    [id |-> id, write_offset |-> 0, next_frame |-> NoFrame, data_for_writing |-> 0,
     finished_writing |-> FALSE, fin_sent |-> FALSE, canceled_write |-> FALSE,
     shutdown |-> FALSE, retransmission_queue |-> <<>>,
     num_outstanding_frames |-> 0, complete |-> FALSE,
     fc_send_win |-> InitialSendWin, fc_bytes_sent |-> 0,
     fc_last_blocked_at |-> 0, write_sem |-> 0]

\* the application's writer on a stream before its first write
IdleWriter == [pc |-> "idle", woken |-> FALSE, size |-> 0]

Init ==
    /\ pnm = [next |-> InitialPn]
    /\ sph = [largest_sent |-> InvalidPn, largest_acked |-> 0, loss_time |-> 0,
              last_ack_eliciting_packet_time |-> 0, lowest_not_confirmed_acked |-> 0,
              bytes_inflight |-> 0, bytes_sent |-> 0, PTO_count |-> 0,
              num_probes_to_send |-> 0, alarm |-> 0]
    /\ hist = [list |-> <<>>, map |-> EmptyMap, highest_sent |-> 0, next_id |-> 1]
    /\ pkts = EmptyMap
    /\ rtt = [latest |-> 0, min |-> 0, smoothed |-> 0, var |-> 0]
    /\ rpt = [ranges |-> <<>>, deleted_below |-> 0, largest_observed |-> 0,
              largest_observed_received_time |-> 0, ignore_below |-> 0,
              has_new_ack |-> FALSE, ack_queued |-> FALSE, since_last_ack |-> 0,
              ack_alarm |-> 0, last_ack |-> NoFrame]
    /\ snd = NewSndStream(SessionStreamId)
    /\ rcv = [final_offset |-> InvalidPn, sorter |-> [read_pos |-> 0, entries |-> <<>>],
              cur_len |-> 0, read_pos_in_frame |-> 0, cur_is_last |-> FALSE,
              fin_read |-> FALSE, reset_by_remote |-> FALSE, canceled_read |-> FALSE,
              shutdown |-> FALSE, fc_highest_received |-> 0,
              fc_received_final |-> FALSE, fc_bytes_read |-> 0,
              fc_receive_window |-> InitialRecvWin, fc_last_update_at |-> 0,
              read_sem |-> 0]
    /\ sess = [is_alive |-> TRUE, running |-> TRUE, events |-> <<>>,
               waiters |-> <<>>, fiber |-> "exec",
               received_queue |-> <<>>, control_frames |-> <<>>, retrans_queue |-> <<>>,
               stream_queue |-> <<>>, active_streams |-> {}, pacing_deadline |-> 0,
               timer_at |-> StartTime + 30000, conn_send_win |-> 0,
               conn_bytes_sent |-> 0, conn_last_blocked_at |-> 0, win_queue |-> {},
               others |-> [id \in OtherStreamIds |->
                              [snd |-> NewSndStream(id), writer |-> IdleWriter]]]
    /\ smap = [out_streams |-> {}, out_next_stream |-> 1, out_max_stream |-> InvalidPn,
               out_blocked_sent |-> FALSE, out_closed |-> FALSE,
               in_streams |-> {}, next_stream_to_accept |-> 1,
               next_stream_to_open |-> 1, max_stream |-> InvalidPn, closed |-> FALSE,
               null_entries |-> {}, max_num_streams |-> InvalidPn,
               accept_sem |-> 0]
    /\ app = [opened |-> FALSE,
              writer |-> [pc |-> "idle", woken |-> FALSE, size |-> 0],
              reader |-> [pc |-> "idle", woken |-> FALSE, want |-> 0, got |-> 0],
              acceptor |-> [pc |-> "idle", woken |-> FALSE],
              writes |-> 0, reads |-> 0, accepts |-> 0, delivered |-> 0, ticks |-> 0,
              pushed |-> 0, order |-> [stride |-> 0, down |-> FALSE],
              peer_sent |-> {}, read_sum |-> 0, read_done |-> FALSE]
    /\ now = StartTime
    /\ build \in {"debug", "ndebug"}
    /\ aborted = FALSE
    /\ srv = [sessions |-> {}, accept_queue |-> <<>>, accept_sem |-> 0,
              started |-> {}, acceptor |-> "idle", returned |-> <<>>]
    /\ obs = [acked |-> {}, acked_again |-> {}, lost |-> {}, wire |-> <<>>, probes |-> {}, pops |-> <<>>,
              min_outstanding |-> 0, last_op |-> "none", acks_handled |-> 0,
              at_ack |-> [bytes_inflight |-> 0, list |-> <<>>, map |-> EmptyMap],
              write_result |-> [ok |-> TRUE, n |-> 0, err |-> "NONE"],
              read_result |-> [ok |-> TRUE, n |-> 0, err |-> "NONE"],
              reads_returned |-> 0, accepted |-> <<>>, frame_errors |-> {},
              conn_close_received |-> FALSE, wire_at_close |-> 0,
              final_conflicts |-> {}, final_changed |-> FALSE,
              blocked_at_close |-> {}, blocked_frames |-> <<>>,
              ranges_dropped |-> FALSE, eliciting_run |-> 0, early_ack |-> FALSE,
              at_pto |-> [fired |-> 0, sent |-> 0, PTO_count |-> 0,
                          num_probes_to_send |-> 0, mode |-> "NONE"],
              write_asked |-> 0,
              encoded |-> [frame |-> NoFrame, size |-> 0, written |-> 0],
              loss_log |-> {}, layouts |-> {}, ctrl_queued |-> <<>>, ctrl_sent |-> <<>>,
              send_call |-> [mode |-> "NONE", ack_queued |-> FALSE, sent |-> 0],
              opens |-> {}, rst_handled |-> FALSE, max_streams_seen |-> 0,
              sem |-> [sent |-> <<>>, got |-> <<>>, resumes |-> 0,
                       empty_front |-> FALSE]]

(***************************************************************************)
(* Inputs: what the application, the peer and the clock can do.            *)
(***************************************************************************)
\* the ACK ranges a well-formed ACK frame carries for the set S, largest first
RECURSIVE RangesOf(_)
RangesOf(S) ==
    IF S = {} THEN <<>>
    ELSE LET hi == CHOOSE m \in S : \A k \in S : k <= m
             lo == CHOOSE m \in S : (m..hi) \subseteq S
                                    /\ \A k \in S : (k..hi) \subseteq S => m <= k
         IN <<[smallest |-> lo, largest |-> hi]>> \o RangesOf(S \ (lo..hi))

AckFrames ==
    {[type |-> "ACK", ranges |-> RangesOf(S), delay |-> 0] :
        S \in (SUBSET (1..MaxPn)) \ {{}}}

\* an inbound packet: the peer numbers its packets in order
PeerPacket(f) == [pn |-> app.delivered + 1, time |-> now, frames |-> <<f>>]

Alive == ~aborted

\* the application opens the session's stream
OpenStream ==
    /\ Alive /\ ~app.opened
    /\ Commit(Run("openStream", World, <<>>))

\* the application calls QuicSndStream::write with n bytes
AppWrite(n) ==
    /\ Alive /\ app.opened /\ app.writer.pc = "idle" /\ app.writes < MaxWrites
    /\ Commit(Run("sndWrite", [World EXCEPT !.app.writes = @ + 1], <<n>>))

\* a writer blocked in waitWrite() runs again
WriterResume ==
    /\ Alive /\ app.writer.pc = "waiting" /\ app.writer.woken
    /\ Commit(Run("writeLoop", World, <<>>))

\* the application calls QuicSndStream::close
AppClose ==
    /\ Alive /\ app.opened /\ ~snd.finished_writing /\ ~snd.canceled_write
    /\ Commit(Run("sndClose", World, <<>>))

\* the server hands the session a packet holding an ACK frame
DeliverAck(f) ==
    /\ Alive /\ sess.running /\ app.delivered < MaxAcks
    /\ Commit(Run("sessSignalRead", [World EXCEPT !.app.delivered = @ + 1], <<PeerPacket(f)>>))

\* the session fiber returns from wait() and runs one pass of run_impl
RunLoop(can_send, budget) ==
    /\ Alive /\ sess.running
    /\ sess.events # <<>> \/ (sess.timer_at # 0 /\ now >= sess.timer_at)
    /\ LET w0 == IF sess.events # <<>> THEN [World EXCEPT !.sess.events = Tail(@)]
                 ELSE World
       IN Commit(Run("runLoopBody", w0, <<can_send, budget>>))

\* the clock advances
\* the clock moves on by step, at most max times
TickWithin(step, max) ==
    /\ Alive /\ app.ticks < max
    /\ now' = now + step
    /\ app' = [app EXCEPT !.ticks = @ + 1]
    /\ UNCHANGED <<pnm, sph, hist, pkts, rtt, rpt, snd, rcv, sess, smap, build,
                   aborted, srv, obs>>

Tick == TickWithin(TickStep, MaxTicks)

Next ==
    \/ OpenStream
    \/ \E n \in WriteSizes : AppWrite(n)
    \/ WriterResume
    \/ AppClose
    \/ \E f \in AckFrames : DeliverAck(f)
    \/ \E can_send \in BOOLEAN, budget \in BOOLEAN : RunLoop(can_send, budget)
    \/ Tick

Spec == Init /\ [][Next]_vars

(***************************************************************************)
(* Sent-packet accounting (claims C1 to C3).                               *)
(***************************************************************************)
RECURSIVE SumInflight(_)
SumInflight(list) ==
    IF list = <<>> THEN 0
    ELSE (IF Head(list).inflight THEN Head(list).len ELSE 0) + SumInflight(Tail(list))

\* C1: when SentPacketHandler::receivedAck returns, bytes_inflight equals the sum
\* of len over the packets held by the sent-packet history whose
\* included-in-bytes-in-flight flag is set.
C1_BytesInflightIsHistorySum ==
    obs.acks_handled > 0
        => obs.at_ack.bytes_inflight = SumInflight(obs.at_ack.list)

\* C2: no sent packet is both acked and lost: a packet declared lost is never
\* collected as acked afterwards, and an acked packet is never declared lost.
C2_NeverAckedAndLost == obs.acked \cap obs.lost = {}

\* C3: when receivedAck returns, the history list is sorted by strictly
\* increasing packet number, a packet number has a hash entry exactly when exactly
\* one list element carries it, and the hash entry refers to that element.
C3_HistorySortedAndConsistent ==
    obs.acks_handled > 0 =>
        LET l == obs.at_ack.list
            m == obs.at_ack.map
            carried(pn) == {i \in 1..Len(l) : l[i].pn = pn}
        IN /\ \A i, j \in 1..Len(l) : i < j => l[i].pn < l[j].pn
           /\ \A pn \in DOMAIN m \cup {l[i].pn : i \in 1..Len(l)} :
                  (pn \in DOMAIN m) <=> (Cardinality(carried(pn)) = 1)
           /\ \A pn \in DOMAIN m : \E i \in carried(pn) : l[i].id = m[pn]

(***************************************************************************)
(* Send stream and packet numbers (claims C7 to C9).                       *)
(***************************************************************************)
\* C7 as the specification states it: the STREAM frames returned by successive
\* popStreamFrame calls of the stream have non-decreasing offsets, retransmissions
\* included.
C7_PopOffsetsNonDecreasing ==
    \A i, j \in 1..Len(obs.pops) : i < j => obs.pops[i].offset <= obs.pops[j].offset

\* the end of the new data popped before the j-th frame
PoppedEnd(j) ==
    LET ends == {obs.pops[i].offset + obs.pops[i].len :
                    i \in {k \in 1..(j - 1) : ~obs.pops[k].retrans}}
    IN IF ends = {} THEN 0 ELSE CHOOSE e \in ends : \A x \in ends : x <= e

\* C7, amended: the frames that carry new data have non-decreasing offsets, each
\* starting where the new data popped before it ends; a retransmitted frame
\* repeats bytes already popped, so it lies below that end and its offset may be
\* lower than the offset of the frame popped before it.
C7_NewDataMonotoneRetransBelow ==
    \A j \in 1..Len(obs.pops) :
        IF obs.pops[j].retrans
        THEN obs.pops[j].offset + obs.pops[j].len <= PoppedEnd(j)
        ELSE obs.pops[j].offset = PoppedEnd(j)

\* a retransmission with a lower offset popped between two frames of new data
C7_RetransInterleaved ==
    \E i, j, k \in 1..Len(obs.pops) :
        /\ i < j /\ j < k
        /\ ~obs.pops[i].retrans /\ obs.pops[j].retrans /\ ~obs.pops[k].retrans
        /\ obs.pops[j].offset < obs.pops[i].offset

\* C8: the packet numbers of the packets the session sends, ordinary or probe, are
\* strictly increasing in sending order, so no number is used twice.
C8_PacketNumbersStrictlyIncrease ==
    \A i, j \in 1..Len(obs.wire) : i < j => obs.wire[i] < obs.wire[j]

\* ordinary packets and a probe packet have been sent
C8_OrdinaryAndProbeSent ==
    /\ Len(obs.wire) >= 3
    /\ \E i \in 2..Len(obs.wire) : obs.wire[i] \in obs.probes
    /\ \E i \in 1..Len(obs.wire) : obs.wire[i] \notin obs.probes

\* C9: the send stream's outstanding-frame count is never negative.
C9_OutstandingFramesNonNegative == snd.num_outstanding_frames >= 0

(***************************************************************************)
(* The session with its peer and the receive side: the peer's STREAM,      *)
(* STREAM_DATA_BLOCKED and CONNECTION_CLOSE frames, application reads and  *)
(* accepts, and closeSession.  The clock stands still.                     *)
(***************************************************************************)
\* the other frames a peer sends: data at the start of the stream, with and
\* without FIN, data behind it with FIN, data beyond the receive window, a frame
\* naming a stream the peer opens, RESET_STREAM and CONNECTION_CLOSE
PeerFrames ==
    {StreamFrame(0, 2, FALSE, TRUE), StreamFrame(0, 2, TRUE, TRUE),
     StreamFrame(2, 2, TRUE, TRUE), StreamFrame(InitialRecvWin, 2, FALSE, TRUE),
     [type |-> "STREAM_DATA_BLOCKED", stream_num |-> 1],
     [type |-> "RESET_STREAM", final_size |-> 4],
     [type |-> "CONNECTION_CLOSE"]}

\* the server hands the session a packet holding one of the other frames
DeliverFrame(f) ==
    /\ Alive /\ sess.running /\ app.delivered < MaxPeerFrames
    /\ Commit(sessSignalRead([World EXCEPT !.app.delivered = @ + 1], PeerPacket(f)))

\* the application calls QuicRcvStream::read for n bytes
AppRead(n) ==
    /\ Alive /\ app.opened /\ app.reader.pc = "idle" /\ app.reads < MaxReads
    /\ Commit(rcvRead([World EXCEPT !.app.reads = @ + 1], n))

\* a reader blocked in waitRead() runs again
ReaderResume ==
    /\ Alive /\ app.reader.pc = "waiting" /\ app.reader.woken
    /\ Commit(rcvReadResume(World))

\* the application calls accept_stream
AcceptStream ==
    /\ Alive /\ app.acceptor.pc = "idle" /\ app.accepts < MaxAccepts
    /\ Commit(acceptStream([World EXCEPT !.app.accepts = @ + 1]))

\* an acceptor blocked in waitAccept() runs again
AcceptResume ==
    /\ Alive /\ app.acceptor.pc = "waiting" /\ app.acceptor.woken
    /\ Commit(acceptLoop(World))

\* QuicSession::closeSession, called by the owner of the session
CloseSession ==
    /\ Alive /\ sess.is_alive
    /\ Commit(closeSession(World))

\* the peer's frames while callers are blocked: data for the reader and a frame
\* that opens a stream for the acceptor
WakingFrames ==
    {StreamFrame(0, 2, FALSE, TRUE), [type |-> "STREAM_DATA_BLOCKED", stream_num |-> 1]}

\* the receive side under the peer's frames
ReceiveNext ==
    \/ OpenStream
    \/ \E n \in {2, 4} : AppRead(n)
    \/ ReaderResume
    \/ \E f \in PeerFrames : DeliverFrame(f)
    \/ \E can_send \in BOOLEAN : RunLoop(can_send, TRUE)

ReceiveSpec == Init /\ [][ReceiveNext]_vars

\* callers of write, read and accept_stream around closeSession
ShutdownNext ==
    \/ OpenStream
    \/ AppWrite(1500)
    \/ WriterResume
    \/ AppRead(2)
    \/ ReaderResume
    \/ AcceptStream
    \/ AcceptResume
    \/ \E f \in WakingFrames : DeliverFrame(f)
    \/ \E can_send \in BOOLEAN : RunLoop(can_send, TRUE)
    \/ CloseSession

ShutdownSpec == Init /\ [][ShutdownNext]_vars

(***************************************************************************)
(* Shutdown and inbound errors (claims C4 to C6 and C10).                  *)
(***************************************************************************)
\* suspended in waitRead, waitWrite or waitAccept with no wake-up pending
Blocked(c) == app[c].pc = "waiting" /\ ~app[c].woken

\* the result the caller's call returned with is the one shutdown gives
ReturnedShutdown(c) ==
    IF c = "reader" THEN obs.read_result.err \in {"SHUTDOWN", "RESET_BY_REMOTE"}
    ELSE IF c = "writer" THEN obs.write_result.err \in {"SHUTDOWN", "RESET_BY_REMOTE"}
    ELSE obs.accepted # <<>> /\ obs.accepted[Len(obs.accepted)] = 0

\* C4: once the session has shut down (closeSession was called and the run loop
\* has ended), every caller that was blocked in a stream read, a stream write or
\* accept_stream has been woken, and a call that has returned gave Shutdown
\* (or ResetByRemote), accept_stream nothing: no caller stays blocked.
C4_ShutdownWakesBlockedCallers ==
    (~sess.is_alive /\ ~sess.running) =>
        \A c \in obs.blocked_at_close :
            /\ ~Blocked(c)
            /\ app[c].pc = "idle" => ReturnedShutdown(c)

\* C5: once a CONNECTION_CLOSE frame of the peer has been handled the session is
\* not alive and no packet has been put on the wire since.
C5_ConnectionCloseClosesSession ==
    obs.conn_close_received =>
        ~sess.is_alive /\ Len(obs.wire) = obs.wire_at_close

\* a CONNECTION_CLOSE frame is queued for sending or was sent in a packet
ConnectionCloseEmitted ==
    \/ \E i \in 1..Len(sess.control_frames) :
           sess.control_frames[i].type = "CONNECTION_CLOSE"
    \/ \E pn \in DOMAIN pkts : \E i \in 1..Len(pkts[pn].frames) :
           pkts[pn].frames[i].type = "CONNECTION_CLOSE"

\* C6: when handling an inbound frame has raised a protocol error, the process
\* has not died, a CONNECTION_CLOSE frame has been emitted and the session has
\* left the alive state for closing.
C6_ProtocolErrorClosesConnection ==
    obs.frame_errors # {} =>
        ~aborted /\ ConnectionCloseEmitted /\ ~sess.is_alive

\* C10: a receive stream's final offset, once set, never changes, and every
\* later frame that declared a different final offset was refused with
\* FinalSizeError.
C10_FinalOffsetPinned ==
    ~obs.final_changed /\ obs.final_conflicts \subseteq {"FINAL_SIZE_ERROR"}

(***************************************************************************)
(* A sender that exhausts its windows (claim C11): one write larger than   *)
(* the stream's initial send window.  sendPackets sends at most five       *)
(* packets per pass of the run loop, and the clock stands still, so it is  *)
(* the peer's packets that wake the session: the peer sends one whenever   *)
(* the session has gone idle with the write unfinished.                    *)
(***************************************************************************)
\* once the stream has used its window up the peer sends a connection limit
\* equal to what has been sent, and the stream limit raised by two bytes
CreditFrames ==
    {ControlFrame("MAX_DATA", InitialSendWin),
     ControlFrame("MAX_STREAM_DATA", InitialSendWin + 2)}

\* the server hands an idle session a packet holding one of the peer's limits
DeliverCredit(f) ==
    /\ Alive /\ sess.running /\ app.delivered < MaxCredits
    /\ sess.events = <<>> /\ sess.received_queue = <<>>
    /\ app.writer.pc = "waiting"
    /\ Commit(Run("sessSignalRead", [World EXCEPT !.app.delivered = @ + 1],
                  <<PeerPacket(f)>>))

BlockedNext ==
    \/ OpenStream
    \* four bytes more than the stream may send before the peer raises its limit
    \/ AppWrite(InitialSendWin + 4)
    \/ WriterResume
    \* until then the peer repeats the stream's limit
    \/ DeliverCredit(ControlFrame("MAX_STREAM_DATA", InitialSendWin))
    \/ \E f \in CreditFrames : sendWinSize(World) = 0 /\ DeliverCredit(f)
    \/ RunLoop(TRUE, TRUE)

BlockedSpec == Init /\ [][BlockedNext]_vars

PendingWrites == {i \in 1..Len(sess.events) : sess.events[i] = "WRITE"}

\* C12: however often write is signalled before the run loop next wakes, a
\* single wake is pending, so that a single pass of the run loop follows.
C12_SinglePendingWriteWake == Cardinality(PendingWrites) <= 1

(***************************************************************************)
(* The server's accept queue (claim C13): Initial packets of new           *)
(* connections arrive while one application fiber calls accept in a loop.  *)
(***************************************************************************)
MaxSessions == 6

\* QuicServer::signalAccept
serverSignalAccept(s, id) ==
    LET empty == s.accept_queue = <<>>
        s1 == [s EXCEPT !.accept_queue = Append(@, id)]
    IN IF empty THEN [s1 EXCEPT !.accept_sem = @ + 1] ELSE s1

\* QuicServer::handleData for a connection id no session has: the new session
\* is stored, queued for accept, handed the packet and started
HandleInitial ==
    /\ Alive /\ Cardinality(srv.sessions) < MaxSessions
    /\ LET id == Cardinality(srv.sessions) + 1
           s1 == serverSignalAccept([srv EXCEPT !.sessions = @ \cup {id}], id)
       IN Commit([World EXCEPT !.srv = [s1 EXCEPT !.started = @ \cup {id}]])

\* QuicServer::accept up to m_accept_sem.wait(): the fiber takes a permit, or
\* waits for one
AcceptWait ==
    /\ Alive /\ srv.acceptor \in {"idle", "waiting"}
    /\ IF srv.accept_sem > 0
       THEN Commit([World EXCEPT !.srv.accept_sem = @ - 1,
                                 !.srv.acceptor = "woken"])
       ELSE /\ srv.acceptor = "idle"
            /\ Commit([World EXCEPT !.srv.acceptor = "waiting"])

\* QuicServer::accept after the wait: front() and pop_front() under the lock;
\* front() of an empty list is undefined and may yield any session or none
AcceptPop ==
    /\ Alive /\ srv.acceptor = "woken"
    /\ \E id \in (IF srv.accept_queue # <<>> THEN {Head(srv.accept_queue)}
                  ELSE 0..MaxSessions) :
           Commit([World EXCEPT
                       !.srv.accept_queue = IF @ = <<>> THEN @ ELSE Tail(@),
                       !.srv.returned = Append(@, id),
                       !.srv.acceptor = "idle"])

AcceptNext == HandleInitial \/ AcceptWait \/ AcceptPop

AcceptSpec == Init /\ [][AcceptNext]_vars

\* C13: every session queued is returned by exactly one accept call, in the
\* order queued, and accept blocks only while the queue is empty: a fiber
\* held in accept with no permit to take finds the queue empty.
C13_AcceptBlocksOnlyWhileQueueEmpty ==
    (srv.acceptor = "waiting" /\ srv.accept_sem = 0) => srv.accept_queue = <<>>

(***************************************************************************)
(* The received-packet history on its own (claims C14, C15): packet        *)
(* numbers are pushed into an empty history.  Either the numbers are small  *)
(* and come in any order, repeated at will, or they are a permutation of   *)
(* 0..MaxRecvPn: the residue classes of a stride one after the other, each *)
(* ascending, or the mirror image of that order.                           *)
(***************************************************************************)
MaxRecvPn == 255
MaxFreePn == 7
MaxStride == 4

\* stride 0 stands for the small numbers in any order
Orders == [stride : 0..MaxStride, down : BOOLEAN] \ {[stride |-> 0, down |-> TRUE]}

ClassSize(s, c) == (MaxRecvPn - c) \div s + 1

\* the k-th number, counted from 0, of the classes c, c + 1, .. of stride s
RECURSIVE AscendingAt(_, _, _)
AscendingAt(s, c, k) ==
    IF k < ClassSize(s, c) THEN c + s * k
    ELSE AscendingAt(s, c + 1, k - ClassSize(s, c))

Arrivals(o) ==
    IF o.stride = 0 THEN 0..MaxFreePn
    ELSE IF app.pushed > MaxRecvPn THEN {}
    ELSE IF o.down THEN {MaxRecvPn - AscendingAt(o.stride, 0, app.pushed)}
    ELSE {AscendingAt(o.stride, 0, app.pushed)}

\* ReceivedPacketHistory::receivedPacket(pn)
HistReceive(o, pn) ==
    /\ Alive
    /\ app.pushed = 0 \/ o = app.order
    /\ LET w == World
           full == addToRanges(w.rpt.ranges, pn)[1]
       IN Commit([w EXCEPT
               !.rpt.ranges = histReceivedPacket(w.rpt, pn)[1],
               !.app.order = o,
               !.app.pushed = IF o.stride = 0 THEN 1 ELSE @ + 1,
               !.obs.ranges_dropped = @ \/ Len(full) > MaxNumberAckRanges])

HistoryNext == \E o \in Orders : \E pn \in Arrivals(o) : HistReceive(o, pn)

HistorySpec == Init /\ [][HistoryNext]_vars

\* C14: after every receivedPacket the interval list is sorted, consecutive
\* intervals are separated by at least one missing number, and the list holds
\* at most 64 intervals.
C14_RangesSortedDisjointCapped ==
    /\ Len(rpt.ranges) <= MaxNumberAckRanges
    /\ \A i \in 1..Len(rpt.ranges) : rpt.ranges[i].start <= rpt.ranges[i].end
    /\ \A i \in 1..(Len(rpt.ranges) - 1) :
           rpt.ranges[i].end + 1 < rpt.ranges[i + 1].start

\* the list is full, ranges have been dropped and others have grown together
C14_FullListAfterDropsAndMerges ==
    /\ Len(rpt.ranges) = MaxNumberAckRanges
    /\ obs.ranges_dropped
    /\ \E i \in 1..Len(rpt.ranges) : rpt.ranges[i].start < rpt.ranges[i].end

PermutationDone == app.order.stride # 0 /\ app.pushed = MaxRecvPn + 1

EvensFirst == app.order = [stride |-> 2, down |-> FALSE]

NumEvens == MaxRecvPn \div 2 + 1

MaxTrackPn == 4
MaxTrackCalls == 5

\* ReceivedPacketTracker::receivedPacket(pn, now, should_instigate_ack)
TrackerReceive(pn, eliciting) ==
    /\ Alive /\ app.delivered < MaxTrackCalls
    /\ Commit([World EXCEPT
           !.rpt = trackerReceivedPacket(@, pn, now, eliciting),
           !.app.delivered = @ + 1,
           !.obs.eliciting_run = IF eliciting THEN Min(@ + 1, PacketsBeforeAck)
                                 ELSE 0])

\* ReceivedPacketTracker::getAckFrame(only_if_queued)
TrackerGetAck(only_if_queued) ==
    /\ Alive
    /\ LET ack == getAckFrame(rpt, only_if_queued, now)
       IN Commit([World EXCEPT
              !.rpt = afterGetAckFrame(@, ack),
              !.obs.eliciting_run = IF ack = NoFrame THEN @ ELSE 0])

TrackerNext ==
    \/ \E pn \in 1..MaxTrackPn, eliciting \in BOOLEAN : TrackerReceive(pn, eliciting)
    \/ \E only_if_queued \in BOOLEAN : TrackerGetAck(only_if_queued)
    \/ Tick

TrackerSpec == Init /\ [][TrackerNext]_vars

\* C16: when two ack-eliciting packets in a row have been received and no ACK
\* frame was generated between them or since, an ACK is queued.
C16_AckQueuedAfterTwoEliciting ==
    obs.eliciting_run >= PacketsBeforeAck => rpt.ack_queued

\* two ack-eliciting packets came in after an ACK frame had been generated,
\* none of them reported as missing and none opening a gap
C16_TwoElicitingAfterAnAck ==
    /\ obs.eliciting_run >= PacketsBeforeAck
    /\ rpt.last_ack # NoFrame
    /\ rpt.since_last_ack = PacketsBeforeAck
    /\ Len(rpt.ranges) = 1

\* C17: after one ack-eliciting packet and no further input the ACK alarm is
\* armed at the packet's receive time plus max_ack_delay, and no ACK frame is
\* put into a packet before an ACK is queued or the alarm has expired.
C17_AckWaitsForAlarm ==
    /\ (rpt.last_ack # NoFrame /\ rpt.since_last_ack = 1 /\ ~rpt.ack_queued) =>
           rpt.ack_alarm = rpt.largest_observed_received_time + MaxAckDelay
    /\ ~obs.early_ack

(***************************************************************************)
(* A packet lost between two acknowledged ones (claim C18): the            *)
(* application writes, three packets go out, and the peer acknowledges     *)
(* packets 1 and 3.  The clock may move twice, in steps shorter than the   *)
(* probe timeout, so that packet 2 can be older than the loss delay when   *)
(* the ACK arrives without a probe having been sent.                       *)
(***************************************************************************)
MaxLossTicks == 2
LossStep == 10000

GapAck ==
    [type |-> "ACK",
     ranges |-> <<[smallest |-> 3, largest |-> 3], [smallest |-> 1, largest |-> 1]>>,
     delay |-> 1000]

LossNext ==
    \/ OpenStream
    \/ \E n \in WriteSizes : AppWrite(n)
    \/ WriterResume
    \* the peer answers once packets 1, 2 and 3 have been sent
    \/ pnm.next = 4 /\ DeliverAck(GapAck)
    \/ RunLoop(TRUE, TRUE)
    \/ TickWithin(LossStep, MaxLossTicks)

LossSpec == Init /\ [][LossNext]_vars

\* packet 2 was sent a clock step before packet 3, and the ACK of packets 1
\* and 3 was handled a clock step after packet 3 was sent
GapAckHandledLate ==
    /\ obs.acks_handled > 0
    /\ pkts[2].send_time < pkts[3].send_time
    /\ pkts[3].send_time < rpt.largest_observed_received_time

\* C18: with packets 1, 2 and 3 sent and an ACK of 1 and 3 handled, packet 2
\* is declared lost, its STREAM frame is popped again at its offset and goes
\* out in the next packet, and the bytes in flight when receivedAck returns
\* are those of packet 3.
C18_GapPacketLostAndResent ==
    GapAckHandledLate =>
        /\ 2 \in obs.lost
        /\ obs.at_ack.bytes_inflight = pkts[3].len
        /\ Len(obs.wire) >= 4
        /\ \E i, j \in 1..Len(obs.pops) :
               /\ i < j /\ ~obs.pops[i].retrans /\ obs.pops[j].retrans
               /\ obs.pops[i].offset = obs.pops[j].offset

\* one packet was sent, no ACK was handled and the loss-detection timer has
\* fired once
FirstTimeoutAfterOnePacket ==
    obs.acks_handled = 0 /\ obs.at_pto.fired = 1 /\ obs.at_pto.sent = 1

\* a STREAM frame of packet pn holds bytes that packet 1 carried
CarriesDataOfFirstPacket(pn) ==
    \E i \in 1..Len(pkts[pn].frames) :
        /\ pkts[pn].frames[i].type = "STREAM"
        /\ \E j \in 1..Len(obs.pops) :
               /\ obs.pops[j].retrans
               /\ obs.pops[j].offset = pkts[pn].frames[i].offset
               /\ obs.pops[j].offset <= obs.pops[1].offset

\* C19: with one packet sent and no ACK, the loss-detection timeout leaves
\* PTO_count 1 and num_probes_to_send 2, sendMode answers PTO_APP_DATA, and
\* the next two packets are probes that carry stream data of the first packet
\* (looked at while the probe is still outstanding).
C19_TimeoutSendsTwoProbes ==
    FirstTimeoutAfterOnePacket =>
        /\ obs.at_pto.PTO_count = 1
        /\ obs.at_pto.num_probes_to_send = 2
        /\ obs.at_pto.mode = "PTO_APP_DATA"
        /\ \A k \in 2..Min(3, Len(obs.wire)) :
               /\ obs.wire[k] \in obs.probes
               /\ pkts[obs.wire[k]].lost \/ CarriesDataOfFirstPacket(obs.wire[k])

\* both probes have gone out after the first timeout
C19_BothProbesSent ==
    /\ FirstTimeoutAfterOnePacket
    /\ Len(obs.wire) >= 3
    /\ sph.num_probes_to_send = 0
    /\ ~pkts[obs.wire[3]].lost

\* the application has written two bytes in one call and closed the stream
TwoBytesWrittenAndClosed ==
    /\ app.writes = 1
    /\ obs.write_result = [ok |-> TRUE, n |-> 2, err |-> "OK"]
    /\ snd.finished_writing

\* the frames the stream has handed out, retransmissions left aside
NewPops == SelectSeq(obs.pops, LAMBDA p : ~p.retrans)

DataWithFin == [offset |-> 0, len |-> 2, fin |-> TRUE, retrans |-> FALSE]

DataAlone == [offset |-> 0, len |-> 2, fin |-> FALSE, retrans |-> FALSE]

FinAlone == [offset |-> 2, len |-> 0, fin |-> TRUE, retrans |-> FALSE]

C21_WriteReturnsWholeBuffer ==
    (app.writes > 0 /\ app.writer.pc = "idle"
        /\ obs.write_result.err # "WRITE_ON_CLOSED_STREAM") =>
        obs.write_result = [ok |-> TRUE, n |-> obs.write_asked, err |-> "OK"]

\* the second write of 1300 bytes has returned after it had to wait: the send
\* loop took its bytes from the writer's own buffer (get_data_for_writing),
\* which fills a packet with one byte more than a buffered frame does
C21_SecondWriteReturnedAfterWaiting ==
    /\ app.writes = 2 /\ app.writer.pc = "idle"
    /\ obs.write_result = [ok |-> TRUE, n |-> 1300, err |-> "OK"]
    /\ \E i \in 1..Len(obs.pops) :
           ~obs.pops[i].retrans /\ obs.pops[i].offset = 1300
           /\ obs.pops[i].len > 1240

(***************************************************************************)
(* A reader draining a stream its peer has written and closed.  The peer's  *)
(* writer wrote WrittenBytes bytes and closed; its frames reach the session *)
(* in any order, the data of the second half once with and once without the *)
(* FIN bit (a retransmission), the FIN also alone.                          *)
(***************************************************************************)
WrittenBytes == 4

WrittenFrames ==
    {StreamFrame(0, 2, FALSE, TRUE), StreamFrame(2, WrittenBytes - 2, FALSE, TRUE),
     StreamFrame(2, WrittenBytes - 2, TRUE, TRUE),
     StreamFrame(WrittenBytes, 0, TRUE, TRUE)}

\* the lengths the reader asks for: more than a frame but less than the stream, and
\* the 1500 of handle_session_stream
ReadLengths == {3, 1500}

\* a packet of the peer with one of the written frames arrives; the peer
\* writes on the stream once it is open
PeerSend(f) ==
    /\ Alive /\ sess.running /\ app.opened /\ f \notin app.peer_sent
    /\ Commit(sessSignalRead([World EXCEPT !.app.delivered = @ + 1,
                                           !.app.peer_sent = @ \cup {f}],
                             PeerPacket(f)))

\* handle_session_stream after a read has returned: sum_size += bytes_rw and
\* the loop ends when the result isCompleted()
sumRead(w) ==
    IF w.app.reader.pc = "idle"
    THEN [w EXCEPT !.app.read_sum = @ + w.obs.read_result.n,
                   !.app.read_done = w.obs.read_result.ok]
    ELSE w

\* one pass of the loop of handle_session_stream up to the return of read or
\* its suspension in waitRead()
ReadAgain(n) ==
    /\ Alive /\ app.opened /\ app.reader.pc = "idle" /\ ~app.read_done
    /\ Commit(sumRead(rcvRead(World, n)))

\* the suspended read of handle_session_stream runs again
ReadAgainResume ==
    /\ Alive /\ app.reader.pc = "waiting" /\ app.reader.woken
    /\ Commit(sumRead(rcvReadResume(World)))

DrainNext ==
    \/ OpenStream
    \/ \E f \in WrittenFrames : PeerSend(f)
    \/ \E n \in ReadLengths : ReadAgain(n)
    \/ ReadAgainResume
    \/ \E can_send \in BOOLEAN : RunLoop(can_send, TRUE)

DrainSpec == Init /\ [][DrainNext]_vars

\* every frame of the peer arrives, the run loop and the reader fiber are
\* scheduled whenever they can run: weak fairness of each action.  WF_vars(A)
\* is []<>~ENABLED <<A>>_vars \/ []<><<A>>_vars; every action here changes
\* vars whenever its guard holds, so ENABLED <<A>>_vars is written as the guard.
DrainFairness ==
    /\ []<>~(Alive /\ ~app.opened) \/ []<><<OpenStream>>_vars
    /\ \A f \in WrittenFrames :
           []<>~(Alive /\ sess.running /\ app.opened /\ f \notin app.peer_sent)
               \/ []<><<PeerSend(f)>>_vars
    /\ []<>~(Alive /\ app.opened /\ app.reader.pc = "idle" /\ ~app.read_done)
           \/ []<><<\E n \in ReadLengths : ReadAgain(n)>>_vars
    /\ []<>~(Alive /\ app.reader.pc = "waiting" /\ app.reader.woken)
           \/ []<><<ReadAgainResume>>_vars
    /\ []<>~(Alive /\ sess.running
               /\ (sess.events # <<>> \/ (sess.timer_at # 0 /\ now >= sess.timer_at)))
           \/ []<><<\E can_send \in BOOLEAN : RunLoop(can_send, TRUE)>>_vars

DrainLiveSpec == DrainSpec /\ DrainFairness

CloseFrames ==
    {[type |-> "CONNECTION_CLOSE", is_application_error |-> app_err,
      error_code |-> code, frame_type |-> IF app_err THEN 0 ELSE ft,
      reason_phrase_len |-> n] :
        app_err \in BOOLEAN, code \in {0, 10, 63, 64, 16384},
        ft \in {0, 8, 64}, n \in {0, 5, 64}}

\* QuicConnectionCloseFrame::writeTo: the number of bytes appended
closeWriteTo(f) ==
    1 + var_size(f.error_code)
      + (IF ~f.is_application_error THEN var_size(f.frame_type) ELSE 0)
      + var_size(f.reason_phrase_len) + f.reason_phrase_len

\* QuicConnectionCloseFrame::size; m_size is never set, sizeof(QuicTransErrorCode)
\* and sizeof(QuicFrameType) are at most 8
closeSize(f) ==
    1 + var_size(8) + var_size(f.reason_phrase_len) + f.reason_phrase_len
      + (IF f.is_application_error THEN var_size(8) ELSE 0)

\* a parsed CONNECTION_CLOSE frame is measured and written
EncodeClose(f) ==
    /\ Alive
    /\ Commit([World EXCEPT !.obs.encoded =
                   [frame |-> f, size |-> closeSize(f), written |-> closeWriteTo(f)]])

FrameNext == \E f \in CloseFrames : EncodeClose(f)

FrameSpec == Init /\ [][FrameNext]_vars

\* C23: size() of a frame is the number of bytes writeTo appends for it.
C23_SizeIsBytesWritten ==
    obs.encoded.frame # NoFrame => obs.encoded.size = obs.encoded.written

\* the largest packet number put on the wire so far, 0 before the first packet
LargestOnWire ==
    IF obs.wire = <<>> THEN 0
    ELSE CHOOSE m \in {obs.wire[i] : i \in 1..Len(obs.wire)} :
             \A i \in 1..Len(obs.wire) : obs.wire[i] <= m

\* C24: an ACK frame whose largest_acked is above the largest packet number sent
\* so far is rejected in every state, also before the first packet is sent, so
\* largest_acked never exceeds the largest packet number sent.
C24_AckOfUnsentPacketRejected == sph.largest_acked <= LargestOnWire

\* C25: every sent packet newly acknowledged by an ACK frame has had onAcked
\* called on its frames, is gone from the sent-packet history and no longer
\* counts in bytes_in_flight once receivedAck has returned.
C25_AckedPacketRemovedAndUncounted ==
    \A pn \in obs.acked :
        /\ \A i \in 1..Len(hist.list) : hist.list[i].pn # pn
        /\ ~pkts[pn].inflight

(***************************************************************************)
(* Loss detection on its own: packets are sent a fraction of a millisecond  *)
(* apart, ACK frames arrive, and detectLostPackets is called with the       *)
(* current time as receivedAck and onLossDetectionTimeout call it.          *)
(***************************************************************************)
MaxDetectTicks == 2
DetectStep == 500
OneMs == 1000

\* the call detectLostPackets(now, lost_packets)
DetectLost ==
    /\ Alive
    /\ Commit(Run("detectLostPackets", World, <<now>>))

DetectNext ==
    \/ OpenStream
    \/ AppWrite(2)
    \/ \E f \in AckFrames : DeliverAck(f)
    \/ RunLoop(TRUE, TRUE)
    \/ TickWithin(DetectStep, MaxDetectTicks)
    \/ DetectLost

DetectSpec == Init /\ [][DetectNext]_vars

\* the loss delay of the claim: 9/8 of the larger RTT, at least one millisecond
ClaimedLossDelay(max_rtt) == Max((max_rtt * 9 + 7) \div 8, OneMs)

\* C26: detectLostPackets(now) declares a packet lost only if it was sent more than
\* loss_delay before now or at least three packet numbers below largest_acked,
\* with loss_delay = max(latest_rtt, smoothed_rtt) * 9/8 and a floor of 1 ms.
\* Stated for the packets below the largest acknowledged one, itself a packet
\* that was sent.
C26_LostOnlyBeyondDelayOrThreshold ==
    \A e \in obs.loss_log :
        (e.pn < e.largest_acked /\ e.largest_acked <= e.largest_sent) =>
            \/ e.send_time < e.now - ClaimedLossDelay(e.max_rtt)
            \/ e.pn + packetThreshold <= e.largest_acked

\* C27: every receivedAck call that is not rejected resets PTO_count and
\* num_probes_to_send to zero before it returns.
C27_AcceptedAckResetsProbes ==
    (obs.last_op = "receivedAck" /\ obs.acked # {}) =>
        sph.PTO_count = 0 /\ sph.num_probes_to_send = 0

\* ---------------------------------------------------------------------------
\* The order of the frames in an outgoing packet

\* the place the stated order gives a frame: ACK, retransmitted frames, control
\* frames, new stream data
StatedRank(tag) ==
    CASE tag = "ACK" -> 0
      [] tag \in {"RETRANS", "STREAM_RETRANS"} -> 1
      [] tag = "CONTROL" -> 2
      [] OTHER -> 3

\* the place composeNextPacket gives a frame: ACK, the frames of the session's
\* retransmission queue, control frames, then the STREAM frames the streams hand
\* out, repeated or new
ComposedRank(tag) ==
    CASE tag = "ACK" -> 0
      [] tag = "RETRANS" -> 1
      [] tag = "CONTROL" -> 2
      [] OTHER -> 3

ConnLimits == {Min2(WriteSizes), Min2(WriteSizes) + Min2(WriteSizes)}

\* the server hands the session a packet holding a MAX_DATA frame
DeliverMaxData(v) ==
    /\ Alive /\ sess.running /\ app.delivered < MaxAcks
    /\ Commit(Run("sessSignalRead", [World EXCEPT !.app.delivered = @ + 1],
                  <<PeerPacket(ControlFrame("MAX_DATA", v))>>))

MixNext ==
    \/ OpenStream
    \/ \E n \in WriteSizes : AppWrite(n)
    \/ WriterResume
    \/ \E v \in ConnLimits : DeliverMaxData(v)
    \/ RunLoop(TRUE, TRUE)
    \/ Tick

MixSpec == Init /\ [][MixNext]_vars

QueueFrames ==
    {ControlFrame("MAX_DATA", Min2(WriteSizes)),
     StreamFrame(0, 2, FALSE, TRUE), StreamFrame(InitialRecvWin - 2, 2, FALSE, TRUE)}

QueueNext ==
    \/ OpenStream
    \/ AppWrite(Min2(WriteSizes))
    \/ \E f \in QueueFrames : PeerSend(f)
    \/ AppRead(2)
    \/ ReaderResume
    \/ RunLoop(TRUE, TRUE)

QueueSpec == Init /\ [][QueueNext]_vars

\* C29: control frames leave the control queue in the order they were queued:
\* the frames placed in packets so far are the first frames queued, in order
C29_ControlFramesLeaveInQueueOrder ==
    /\ Len(obs.ctrl_sent) <= Len(obs.ctrl_queued)
    /\ \A i \in 1..Len(obs.ctrl_sent) : obs.ctrl_sent[i] = obs.ctrl_queued[i]

\* ---------------------------------------------------------------------------
\* Round-robin service of the active streams

\* how often stream id stands in the active queue
TimesQueued(id) == Cardinality({i \in 1..Len(sess.stream_queue) : sess.stream_queue[i] = id})

\* C30: the active streams are served round-robin: between two assemblies every
\* active stream stands exactly once in the active queue, and only active
\* streams stand in it
C30_ActiveStreamsQueuedOnce ==
    /\ \A id \in sess.active_streams : TimesQueued(id) = 1
    /\ \A i \in 1..Len(sess.stream_queue) : sess.stream_queue[i] \in sess.active_streams

\* the application opens another stream of the session
OpenOther ==
    /\ Alive /\ app.opened /\ \E id \in OtherStreamIds : ~hasSendStream(World, id)
    /\ Commit(Run("openStream", World, <<>>))

\* the application calls QuicSndStream::write on another stream, once; a first
\* write of these sizes is buffered and returns without waiting
WriteOther(id, n) ==
    /\ Alive /\ hasSendStream(World, id)
    /\ sess.others[id] = [snd |-> NewSndStream(id), writer |-> IdleWriter]
    /\ Commit(onStream(World, id, "sndWrite", <<n>>))

RoundNext ==
    \/ OpenStream
    \/ OpenOther
    \/ \E n \in WriteSizes : AppWrite(n)
    \/ WriterResume
    \/ \E id \in OtherStreamIds, n \in WriteSizes : WriteOther(id, n)
    \/ RunLoop(TRUE, TRUE)

RoundSpec == Init /\ [][RoundNext]_vars

\* ---------------------------------------------------------------------------
\* One invocation of sendPackets

\* C31: a single invocation of sendPackets produces at most 4 packets, however
\* much data is queued
C31_AtMostFourPacketsPerCall == obs.send_call.sent <= 4

\* C32: when the send mode is ACK (congestion or pacing forbids new data) and an
\* ACK is queued, sendPackets still sends a packet carrying the ACK
C32_AckSentWhenDataForbidden ==
    (obs.send_call.mode = "ACK" /\ obs.send_call.ack_queued) => obs.send_call.sent >= 1

\* ---------------------------------------------------------------------------
\* Opening streams under the peer's stream limit

\* the stream limits the peer announces
LimitFrames == {ControlFrame("MAX_STREAMS", v) : v \in {1, 2, 3}}

OpenNext ==
    \/ OpenStream
    \/ OpenOther
    \/ \E n \in WriteSizes : AppWrite(n)
    \/ WriterResume
    \/ \E f \in LimitFrames : PeerSend(f)
    \/ RunLoop(TRUE, TRUE)

OpenSpec == Init /\ [][OpenNext]_vars

\* C33: once a MAX_STREAMS frame has been handled the outgoing map's stream limit
\* is the highest limit the peer has announced
C33_MaxStreamsRaisesLimit ==
    obs.max_streams_seen # 0 => smap.out_max_stream = obs.max_streams_seen

\* C35: the outgoing map refuses an open exactly when the new stream's number
\* would exceed the current limit: under a limit the peer has announced every
\* open at or below the limit succeeds and none above it does
C35_OpenRefusedExactlyAboveLimit ==
    \A o \in obs.opens : o.announced # 0 => (o.ok <=> o.num <= o.announced)

\* C34: a RESET_STREAM frame received for the receive stream is handed to
\* handleRstStreamFrame and the stream moves to ResetRecvd: once the session has
\* handled the frame the stream is marked reset by the remote
C34_ResetStreamDispatched == obs.rst_handled => rcv.reset_by_remote

\* ---------------------------------------------------------------------------
\* The streams the peer opens

\* the peer names its streams 1 and 2 in frames that carry no data
IncomingFrames == {[type |-> "STREAM_DATA_BLOCKED", stream_num |-> n] : n \in {1, 2}}

\* an incoming stream the application accepted completes: QuicSession::onStreamCompleted
\* has QuicStreamManager::deleteStream remove it from the incoming map
CompleteIncoming(num) ==
    /\ Alive /\ num \in smap.in_streams /\ num < smap.next_stream_to_accept
    /\ Commit(Run("deleteStreamImp", World, <<num>>))

\* as AcceptStream, for an application that keeps accepting
AcceptAgain ==
    /\ Alive /\ app.acceptor.pc = "idle" /\ app.accepts < MaxAccepts + 1
    /\ Commit(acceptStream([World EXCEPT !.app.accepts = @ + 1]))

IncomingNext ==
    \/ \E f \in IncomingFrames : DeliverFrame(f)
    \/ AcceptAgain
    \/ AcceptResume
    \/ \E num \in 1..2 : CompleteIncoming(num)
    \/ \E can_send \in BOOLEAN : RunLoop(can_send, TRUE)

IncomingSpec == Init /\ [][IncomingNext]_vars

\* C36: accept returns the peer's streams lowest number first, and the first
\* accept of a stream queues a MAX_STREAMS frame that raises the peer's limit
C36_AcceptInOrderAndRaisesCredit ==
    /\ \A i \in 1..Len(obs.accepted) :
           obs.accepted[i] # 0 =>
               obs.accepted[i] = Cardinality({k \in 1..i : obs.accepted[k] # 0})
    /\ (\E i \in 1..Len(obs.accepted) : obs.accepted[i] # 0) =>
           \E j \in 1..Len(obs.ctrl_queued) : obs.ctrl_queued[j].type = "MAX_STREAMS"

\* C39: in the incoming map the next stream number to open never decreases and
\* every entry stored holds a stream
C39_NextToOpenMonotoneNoEmptyEntry ==
    /\ [](smap.null_entries = {})
    /\ [][smap.next_stream_to_open' >= smap.next_stream_to_open]_vars

\* ---------------------------------------------------------------------------
\* Starvation of active streams

\* the stream ids standing in the active queue
QueuedStreams == {sess.stream_queue[i] : i \in 1..Len(sess.stream_queue)}

\* C37: whenever popStreamFrames has returned, every stream of the active set
\* stands in the active queue, so that a later assembly offers it
\* popStreamFrame again
C37_ActiveStreamsStayQueued == sess.active_streams \subseteq QueuedStreams

\* ---------------------------------------------------------------------------
\* Acknowledgement callbacks

\* C38: the frames of a sent packet have their on_acked callback invoked at
\* most once for that transmission: no packet has the callbacks of its frames
\* run a second time
C38_OnAckedAtMostOncePerTransmission == obs.acked_again = {}

\* ---------------------------------------------------------------------------
\* The session semaphore, one step of wait() at a time

\* QuicSessionEvent
SessionEvents == {"NONE", "READ", "WRITE"}

\* the events a call queued on m_events between w and w1, added to the log
SemLogged(w, w1) ==
    [w1 EXCEPT !.obs.sem.sent =
                   @ \o SubSeq(w1.sess.events, Len(w.sess.events) + 1, Len(w1.sess.events))]

\* what wait() returns once it holds the lock: the front of m_events, which it
\* pops.  front() of an empty list is undefined: ev stands for whatever it yields
semTakeFront(w, ev) ==
    IF w.sess.events = <<>>
    THEN [w EXCEPT !.obs.sem.got = Append(@, ev), !.obs.sem.empty_front = TRUE]
    ELSE [w EXCEPT !.obs.sem.got = Append(@, Head(w.sess.events)),
                   !.sess.events = Tail(@)]

\* a wait() that takes the front of m_events without looking at its size
semWaitUnchecked(w) == [semTakeFront(w, "NONE") EXCEPT !.ret.more = TRUE]

\* SessionSemaphore::wait up to its first return or to YieldToHold; .ret.more
\* tells whether it returned an event
semWait(w) ==
    IF Len(w.sess.events) > 0
    THEN [semTakeFront(w, "NONE") EXCEPT !.ret.more = TRUE]
    ELSE [w EXCEPT !.sess.waiters = Append(@, "run_impl"), !.sess.fiber = "hold",
                   !.ret.more = FALSE]

\* run_impl from the return of wait() to the next call of wait()
afterWait(w, w1, can_send) ==
    SemLogged(w1, Run("runLoopBody", w1, <<can_send, TRUE>>))

\* the session fiber calls wait()
SessionWait(can_send) ==
    /\ Alive /\ sess.running /\ sess.fiber = "exec"
    /\ Len(obs.sem.got) < MaxWaits
    /\ LET w1 == semWait(World)
       IN Commit(IF w1.ret.more THEN afterWait(World, w1, can_send) ELSE w1)

\* the scheduler resumes the session fiber after YieldToHold
SessionResume(can_send) ==
    /\ Alive /\ sess.running /\ sess.fiber = "ready"
    /\ \E ev \in (IF sess.events = <<>> THEN SessionEvents ELSE {"NONE"}) :
           LET w1 == semTakeFront([World EXCEPT !.sess.fiber = "exec",
                                                !.obs.sem.resumes = @ + 1], ev)
           IN Commit(afterWait(World, w1, can_send))

\* a stream of the session calls signalWrite
SemSignalWrite ==
    /\ Alive /\ Len(obs.sem.sent) < MaxNotifies
    /\ Commit(SemLogged(World, Run("signalWrite", World, <<>>)))

\* the server hands the session a packet of the peer
SemSignalRead(f) ==
    /\ Alive /\ Len(obs.sem.sent) < MaxNotifies /\ app.delivered < MaxNotifies
    /\ Commit(SemLogged(World, Run("sessSignalRead", [World EXCEPT !.app.delivered = @ + 1],
                                   <<PeerPacket(f)>>)))

\* the timer run_impl armed before wait() fires
SemTimer ==
    /\ Alive /\ sess.timer_at # 0 /\ now >= sess.timer_at
    /\ Len(obs.sem.sent) < MaxNotifies
    /\ Commit(SemLogged(World, SemNotify([World EXCEPT !.sess.timer_at = 0], "NONE")))

SemNext ==
    \/ \E can_send \in BOOLEAN : SessionWait(can_send)
    \/ \E can_send \in BOOLEAN : SessionResume(can_send)
    \/ SemSignalWrite
    \/ \E f \in IncomingFrames : SemSignalRead(f)
    \/ SemTimer
    \/ TickWithin(30000, 1)

SemSpec == Init /\ [][SemNext]_vars

\* C40: the events wait() has returned, followed by the events still on the
\* list, are the events notify() has queued, in that order: every return of
\* wait() delivers an event a notify queued before, no event is delivered
\* twice, and wait() never takes the front of an empty list
C40_WaitDeliversQueuedEventsOnce ==
    /\ obs.sem.sent = obs.sem.got \o sess.events
    /\ ~obs.sem.empty_front

\* the session fiber was parked, woken by a notify and handed its event
C40_ParkedFiberGotItsEvent ==
    /\ obs.sem.resumes >= 1
    /\ Len(obs.sem.got) >= 2
    /\ sess.fiber = "exec"

=============================================================================
